---- MODULE Spec2Model ----
(***************************************************************************)
(* A model of the study-buddy backend: the content cache                   *)
(* (app/content_cache.py), the generation and grading functions            *)
(* (app/learning.py), the quiz submission and batch preparation handlers   *)
(* (app/main.py) and the progress store (app/storage.py).                  *)
(*                                                                         *)
(* Files are modelled by directories: a directory is a function from file  *)
(* names to contents.  File names are sequences of character codes, since  *)
(* the code orders files by sorted() on their paths, i.e. by code point.   *)
(* Coroutines are modelled by one step per stretch of code between two     *)
(* awaits: the only await that suspends is the model call (_call_llm).     *)
(***************************************************************************)
EXTENDS Integers, Sequences, FiniteSets, TLC

VARIABLES
    curriculums,    \* storage.py: ids of the records in curriculums.json
    lessonFiles,    \* content/<id>/lessons/<ci>-<ti>.json, per topic key
    quizFiles,      \* content/<id>/quizzes/<ci>-<ti>/, per topic key a directory
    assessFiles,    \* content/<id>/assessments/<ci>-<ti>/, per topic key a directory
    progressFile,   \* storage.py: progress.json, curriculum id -> topics
    clock,          \* datetime.now(), in whole seconds
    calls,          \* the direct requests in flight or finished, per slot
    preps,          \* the batch preparations, per slot
    sem,            \* main.py: value of _prepare_semaphore
    savedVersions,  \* per topic key, the versions save_quiz has returned, in call order
    fixedAnswers,   \* the answer list the grading specification submits
    chatFiles,      \* content/<id>/chats/<ci>-<ti>.json, per topic key the transcript
    ret,            \* the last direct call of a store function and what it returned
    executor        \* learning.py _executor: the calls in a worker thread and the queue

vars == << curriculums, lessonFiles, quizFiles, assessFiles, progressFile, clock,
           calls, preps, sem, savedVersions, fixedAnswers, chatFiles, ret, executor >>

storeVars == << lessonFiles, quizFiles, assessFiles, chatFiles >>

(***************************************************************************)
(* Bounds of the model.                                                    *)
(***************************************************************************)
MaxQuizFiles == 12      \* quiz files the store specification writes
MaxQuestions == 3       \* questions of a quiz in the grading specification
MaxAnswers == 3         \* length of a submitted answer list
MaxClock == 2           \* seconds the clock advances
MaxGenQuizzes == 2      \* versions of a key at which a forced generation still starts
MaxStoreFiles == 3      \* artifacts the store specification writes in all
MaxAssessments == 3     \* assessment files of the key of the assessment specification

(***************************************************************************)
(* Program constants.                                                      *)
(***************************************************************************)
PASSING_SCORE == 80         \* learning.py: Quiz(..., passing_score=80)
BATCH_SIZE == 4             \* main.py: BATCH_SIZE
SEMAPHORE_PERMITS == 4      \* main.py: asyncio.Semaphore(4)
DEFAULT_ESTIMATED_TIME == 15

None == [ none |-> TRUE ]     \* Python's None, where a record is expected
NoPath == << >>              \* no path: the empty string names no file
NoAnswer == -1              \* the text "No answer" of a feedback entry

(***************************************************************************)
(* Strings.  A string is a sequence of character codes.                    *)
(***************************************************************************)
CH_DOT == 46
CH_ZERO == 48
CH_UNDERSCORE == 95

STR_QUIZ_ == << 113, 117, 105, 122, CH_UNDERSCORE >>     \* "quiz_"
STR_JSON == << CH_DOT, 106, 115, 111, 110 >>             \* ".json"

RECURSIVE Str(_)
\* f"{n}" for an integer n >= 0: its decimal digits
Str(n) == IF n < 10 THEN << CH_ZERO + n >>
          ELSE Str(n \div 10) \o << CH_ZERO + (n % 10) >>

RECURSIVE StrLess(_, _)
\* a < b for two strings: the order sorted() puts paths of one directory in
StrLess(a, b) ==
    IF a = << >> THEN b # << >>
    ELSE IF b = << >> THEN FALSE
    ELSE IF Head(a) # Head(b) THEN Head(a) < Head(b)
    ELSE StrLess(Tail(a), Tail(b))

\* sorted(names)[-1]: the greatest name of a non-empty set of names
SortedLast(names) == CHOOSE n \in names : \A m \in names : m = n \/ StrLess(m, n)

\* quiz_dir / f"quiz_{version}.json"
QuizFileName(version) == STR_QUIZ_ \o Str(version) \o STR_JSON

(***************************************************************************)
(* The curriculum store (storage.py) and the topic keys.                   *)
(***************************************************************************)
CurriculumIds == { "c1", "c2" }

\* record["curriculum"]["clusters"]: per cluster the number of its topics
Clusters(id) == IF id = "c1" THEN << 2, 1 >> ELSE << 1 >>

\* the topic keys of a curriculum, as enumerate() visits them
TopicKeys(id) ==
    UNION { { << id, ci, ti >> : ti \in 0 .. Clusters(id)[ci + 1] - 1 } :
            ci \in 0 .. Len(Clusters(id)) - 1 }

Keys == UNION { TopicKeys(id) : id \in CurriculumIds }

\* a get_curriculum that finds a record for every id
GetCurriculumAny(id) == [ id |-> id ]

\* storage.get_curriculum(curriculum_id): the record, or None
get_curriculum(id) == IF id \in curriculums THEN [ id |-> id ] ELSE None

(***************************************************************************)
(* Artifacts.  A question keeps what grading reads: the number of its      *)
(* options and its correct_index; texts are left out.                      *)
(***************************************************************************)
Corrupt == [ corrupt |-> TRUE ]    \* a file whose text json.loads or the schema rejects

Question(n, ci) == [ options |-> n, correct_index |-> ci ]

Quiz(name, qs, ps) == [ topic_name |-> name, questions |-> qs, passing_score |-> ps ]

\* the quiz of tests/conftest.py (sample_quiz): two questions, correct indices [1, 1]
SampleQuizA == Quiz("A", << Question(4, 1), Question(4, 1) >>, PASSING_SCORE)
SampleQuizB == Quiz("B", << Question(4, 0), Question(4, 2) >>, PASSING_SCORE)
SampleQuizzes == { SampleQuizA, SampleQuizB }

EmptyDir == << >>

\* path.write_text(...): creates the file or replaces its content
WriteFile(dir, name, content) == (name :> content) @@ dir

(***************************************************************************)
(* content_cache.py: quizzes                                               *)
(***************************************************************************)
\* len(list(quiz_dir.glob("quiz_*.json"))), 0 when the directory is missing
QuizCount(dir) == Cardinality(DOMAIN dir)

get_quiz_count(k) == QuizCount(quizFiles[k])

\* a read without the try/except: the parse error reaches the caller
LoadArtifactStrict(content) == IF content = Corrupt THEN [ raised |-> "parse" ] ELSE content

\* json.loads + Quiz(**data) under try/except: None for an unreadable file
LoadArtifact(content) == IF content = Corrupt THEN None ELSE content

\* the path get_cached_quiz reads, or None
CachedQuizPath(dir, version) ==
    IF DOMAIN dir = {} THEN NoPath
    ELSE IF version = -1 THEN SortedLast(DOMAIN dir)
    ELSE IF version >= 0 /\ QuizFileName(version) \in DOMAIN dir
         THEN QuizFileName(version)
    ELSE NoPath

CachedQuiz(dir, version) ==
    LET path == CachedQuizPath(dir, version)
    IN  IF path = NoPath THEN None ELSE LoadArtifact(dir[path])

get_cached_quiz(k, version) == CachedQuiz(quizFiles[k], version)

\* a version taken from the number of the newest file instead of the file count
NextVersionOfLast(dir) == IF QuizCount(dir) = 0 THEN 0 ELSE QuizCount(dir) - 1

\* versions counted from 1
NextVersionFromOne(dir) == QuizCount(dir) + 1

\* version = get_quiz_count(...) in save_quiz
NextVersion(dir) == QuizCount(dir)

\* a save_quiz that always writes quiz_0.json
SaveQuizDirFirst(dir, quiz) == WriteFile(dir, QuizFileName(0), quiz)

\* save_quiz: the directory after the call
SaveQuizDir(dir, quiz) == WriteFile(dir, QuizFileName(NextVersion(dir)), quiz)

TotalQuizFiles == LET RECURSIVE Sum(_)
                      Sum(S) == IF S = {} THEN 0
                                ELSE LET k == CHOOSE x \in S : TRUE
                                     IN  QuizCount(quizFiles[k]) + Sum(S \ {k})
                  IN  Sum(Keys)

\* a direct call save_quiz(k, quiz), as tests/test_storage.py makes them
save_quiz(k, quiz) ==
    /\ TotalQuizFiles < MaxQuizFiles
    /\ quizFiles' = [quizFiles EXCEPT ![k] = SaveQuizDir(@, quiz)]
    /\ savedVersions' = [savedVersions EXCEPT ![k] = Append(@, NextVersion(quizFiles[k]))]
    /\ UNCHANGED << curriculums, lessonFiles, assessFiles, progressFile, clock,
                    calls, preps, sem, fixedAnswers,
                    chatFiles, ret, executor >>

(***************************************************************************)
(* content_cache.py: assessments                                           *)
(***************************************************************************)
STR_DATE_ == << 50, 48, 50, 52, 49, 50, 48, 53, CH_UNDERSCORE, 49, 50, 48, 48 >>  \* "20241205_1200"

\* datetime.now().strftime("%Y%m%d_%H%M%S"): fixed width, the seconds in two digits
TimeStamp(t) == STR_DATE_ \o << CH_ZERO + (t \div 10), CH_ZERO + (t % 10) >>

\* assessment_dir / f"quiz_{quiz_version}_{timestamp}.json"
AssessmentFileName(quiz_version, t) ==
    STR_QUIZ_ \o Str(quiz_version) \o << CH_UNDERSCORE >> \o TimeStamp(t) \o STR_JSON

\* save_assessment: the directory after the call
SaveAssessmentDir(dir, quiz_version, assessment, t) ==
    WriteFile(dir, AssessmentFileName(quiz_version, t), assessment)

(***************************************************************************)
(* storage.py: learning progress                                           *)
(***************************************************************************)
\* init_learning_progress: the record created for an id without one
NewProgress(id, t) == [ curriculum_id |-> id, topics |-> << >>,
                        started_at |-> t, last_activity |-> t ]

\* an update_topic_progress that writes nothing
ProgressNotUpdated(file, k, completed, quiz_score, t) == file

\* update_topic_progress(id, ci, ti, completed, quiz_score): progress.json after it
UpdateTopicProgress(file, k, completed, quiz_score, t) ==
    LET id == k[1]
        topic_key == << k[2], k[3] >>
        all_progress == IF id \in DOMAIN file THEN file
                        ELSE (id :> NewProgress(id, t)) @@ file
        entry == [ completed |-> completed, quiz_score |-> quiz_score,
                   completed_at |-> IF completed THEN t ELSE -1 ]
    IN  [ all_progress EXCEPT ![id] =
            [ @ EXCEPT !.topics = (topic_key :> entry) @@ @, !.last_activity = t ] ]

(***************************************************************************)
(* Grading: main.py _create_fallback_assessment and the scoring part of    *)
(* learning.py assess_quiz_answers.                                        *)
(***************************************************************************)
Min(a, b) == IF a < b THEN a ELSE b

\* an exception leaving a function
Raise(e) == [ raised |-> e ]
Raised(r) == "raised" \in DOMAIN r

\* lst[i] is defined for a Python list of length n
IndexOK(i, n) == -n <= i /\ i < n

\* zip(quiz.questions, answers) stops with the shorter of the two
ZipLen(quiz, answers) == Min(Len(quiz.questions), Len(answers))

\* question.options[question.correct_index] raises IndexError for one of the pairs
ZipIndexError(quiz, answers) ==
    \E i \in 1 .. ZipLen(quiz, answers) :
        ~ IndexOK(quiz.questions[i].correct_index, quiz.questions[i].options)

\* is_correct = answer == question.correct_index
IsCorrect(question, answer) == answer = question.correct_index

RECURSIVE CountCorrect(_, _, _)
\* the loop's correct_count after the pairs i, i+1, ..., ZipLen
CountCorrect(quiz, answers, i) ==
    IF i > ZipLen(quiz, answers) THEN 0
    ELSE (IF IsCorrect(quiz.questions[i], answers[i]) THEN 1 ELSE 0)
         + CountCorrect(quiz, answers, i + 1)

\* the percentage rounded to the nearest integer instead of truncated
RoundedPercent(correct_count, total) == (200 * correct_count + total) \div (2 * total)

\* int((correct_count / total) * 100) for total >= 1.  The float product is below
\* the exact quotient only from total = 50 on (29/50), so for the quizzes of this
\* model it is the quotient truncated.
TruncPercent(correct_count, total) == (100 * correct_count) \div total

\* question.options[answer] if 0 <= answer < len(question.options) else "No answer"
StudentChoice(question, answer) ==
    IF 0 <= answer /\ answer < question.options THEN answer ELSE NoAnswer

\* the per-question entries both grading paths build
QuestionFeedback(quiz, answers) ==
    [ i \in 1 .. ZipLen(quiz, answers) |->
        [ question_num |-> i,
          is_correct |-> IsCorrect(quiz.questions[i], answers[i]),
          student_choice |-> StudentChoice(quiz.questions[i], answers[i]),
          correct_answer |-> quiz.questions[i].correct_index ] ]

\* str(e) of the exceptions and the texts submit_quiz passes as error_message
MSG_NOT_REQUESTED == "AI grading not requested"
MSG_API_ERROR == "API error"
MSG_QUOTA == "rate limit: credit balance too low"
MSG_PARSE == "Failed to parse JSON from response"
MSG_NOT_FOUND == "Curriculum not found"
MSG_INDEX == "list index out of range"
MSG_ZERO_DIV == "division by zero"
MSG_TYPE == "list indices must be integers"
MSG_KEY == "KeyError"

\* "credit" in m or "rate" in m or "quota" in m or "billing" in m, for m lower-cased
is_credits_error(error_message) == error_message \in { MSG_QUOTA }

\* a fallback that refuses to pass a student while the credits are exhausted
FallbackCreditsFail(quiz, quiz_version, answers, error_message) ==
    IF ZipIndexError(quiz, answers) THEN Raise(MSG_INDEX)
    ELSE IF Len(quiz.questions) = 0 THEN Raise(MSG_ZERO_DIV)
    ELSE
        LET correct_count == CountCorrect(quiz, answers, 1)
            score == TruncPercent(correct_count, Len(quiz.questions))
            passed == score >= quiz.passing_score /\ ~ is_credits_error(error_message)
        IN  [ score |-> score,
              correct_count |-> correct_count,
              total_questions |-> Len(quiz.questions),
              passed |-> passed,
              quiz_version |-> quiz_version,
              keys |-> { "fallback_mode", "question_feedback", "summary" },
              fallback_mode |-> "true",
              question_feedback |-> QuestionFeedback(quiz, answers),
              encouragement |-> IF is_credits_error(error_message)
                                THEN "credits exhausted" ELSE "unavailable" ]

\* _create_fallback_assessment(quiz, quiz_version, answers, error_message)
_create_fallback_assessment(quiz, quiz_version, answers, error_message) ==
    IF ZipIndexError(quiz, answers) THEN Raise(MSG_INDEX)
    ELSE IF Len(quiz.questions) = 0 THEN Raise(MSG_ZERO_DIV)
    ELSE
        LET correct_count == CountCorrect(quiz, answers, 1)
            score == TruncPercent(correct_count, Len(quiz.questions))
            passed == score >= quiz.passing_score
        IN  [ score |-> score,
              correct_count |-> correct_count,
              total_questions |-> Len(quiz.questions),
              passed |-> passed,
              quiz_version |-> quiz_version,
              keys |-> { "fallback_mode", "question_feedback", "summary" },
              fallback_mode |-> "true",
              question_feedback |-> QuestionFeedback(quiz, answers),
              encouragement |-> IF is_credits_error(error_message)
                                THEN "credits exhausted" ELSE "unavailable" ]

(***************************************************************************)
(* The model call.  A response is an exception of the client or a text;    *)
(* a text is JSON, prose around a fenced block, or prose without one.      *)
(***************************************************************************)
LlmRaise(msg) == [ kind |-> "raise", error |-> msg ]
LlmText(form, data) == [ kind |-> "text", form |-> form, data |-> data ]

\* learning.py _parse_json_response(text): the parsed value or the exception
_parse_json_response(text) ==
    IF text.form = "json" THEN text.data            \* json.loads(text) succeeds
    ELSE IF text.form = "fenced" THEN text.data     \* the first fenced block parses
    ELSE IF text.form = "fenced_bad" THEN Raise("Expecting value")   \* JSONDecodeError
    ELSE Raise(MSG_PARSE)                           \* no fenced block

\* what the model may answer to the assessment prompt
PayloadFull == [ dict |-> TRUE, keys |-> { "question_feedback", "summary" },
                 fallback_mode |-> "absent",
                 question_feedback |-> << [ model_text |-> TRUE ] >>,
                 encouragement |-> "model" ]
PayloadEmpty == [ dict |-> TRUE, keys |-> {}, fallback_mode |-> "absent",
                  question_feedback |-> << >>, encouragement |-> "absent" ]
PayloadList == [ dict |-> FALSE ]

AssessFailures == { LlmRaise(MSG_API_ERROR), LlmRaise(MSG_QUOTA),
                    LlmText("prose", PayloadFull), LlmText("fenced_bad", PayloadFull),
                    LlmText("json", PayloadList) }
AssessResponses == AssessFailures \cup
                   { LlmText("json", PayloadFull), LlmText("fenced", PayloadFull),
                     LlmText("json", PayloadEmpty) }

(***************************************************************************)
(* learning.py assess_quiz_answers, before and after its model call.       *)
(***************************************************************************)
\* lines 227-249: the curriculum lookup and the score; what it keeps, or the exception
AssessScore(k, quiz, answers) ==
    IF get_curriculum(k[1]) = None THEN Raise(MSG_NOT_FOUND)
    ELSE IF ZipIndexError(quiz, answers) THEN Raise(MSG_INDEX)
    ELSE IF Len(quiz.questions) = 0 THEN Raise(MSG_ZERO_DIV)
    ELSE LET correct_count == CountCorrect(quiz, answers, 1)
         IN  [ correct_count |-> correct_count,
               score |-> TruncPercent(correct_count, Len(quiz.questions)) ]

\* the five values lines 297-301 assign
Scoring(pre, quiz, quiz_version) ==
    [ score |-> pre.score,
      correct_count |-> pre.correct_count,
      total_questions |-> Len(quiz.questions),
      passed |-> pre.score >= quiz.passing_score,
      quiz_version |-> quiz_version ]

\* the parsed reply as the assessment dict: the fields of the JSON object
ReplyFields(data) == DOMAIN data \ { "dict" }

\* dict.setdefault in place of assignment: a key of the reply keeps the reply's value
KeepReplyScoring(data, scoring) ==
    [ f \in ReplyFields(data) \cup DOMAIN scoring |->
        IF f \in ReplyFields(data) THEN data[f] ELSE scoring[f] ]

\* assessment["score"] = score, ...: each assignment replaces what the reply had
SetScoring(data, scoring) ==
    [ f \in ReplyFields(data) \cup DOMAIN scoring |->
        IF f \in DOMAIN scoring THEN scoring[f] ELSE data[f] ]

\* lines 294-301: the assessment built from the response, or the exception
AssessResult(pre, quiz, quiz_version, response) ==
    IF response.kind = "raise" THEN Raise(response.error)
    ELSE LET data == _parse_json_response(response)
         IN  IF Raised(data) THEN data
             ELSE IF ~ data.dict THEN Raise(MSG_TYPE)
             ELSE SetScoring(data, Scoring(pre, quiz, quiz_version))

(***************************************************************************)
(* main.py submit_quiz                                                     *)
(***************************************************************************)
CallFree(c) == calls[c].pc \in { "idle", "done" }

\* the seconds datetime.now() may show a moment later
Later == { clock } \cup (IF clock < MaxClock THEN { clock + 1 } ELSE {})

(***************************************************************************)
(* learning.py _call_llm: every model call runs in one thread pool; a call *)
(* submitted while all workers are busy waits in the pool's queue.         *)
(***************************************************************************)
MAX_WORKERS == 4

IdleExecutor == [ running |-> {}, waiting |-> << >> ]

\* the model call of direct request c, and of task i of preparation p
CallInv(c) == << "call", c, 0 >>
TaskInv(p, i) == << "task", p, i >>

\* a pool that starts a thread for every call
ExecutorSubmitUnbounded(ex, x) == [ ex EXCEPT !.running = @ \cup { x } ]

\* run_in_executor(_executor, ...): the call gets a worker thread if fewer than
\* max_workers are busy, else it is queued
ExecutorSubmit(ex, x) ==
    IF Cardinality(ex.running) < MAX_WORKERS
    THEN [ ex EXCEPT !.running = @ \cup { x } ]
    ELSE [ ex EXCEPT !.waiting = Append(@, x) ]

\* the call is in a worker thread, inside client.messages.create
Executing(ex, x) == x \in ex.running

\* the call returns or raises; its worker takes the first queued call
ExecutorFinish(ex, x) ==
    IF ex.waiting = << >> THEN [ ex EXCEPT !.running = @ \ { x } ]
    ELSE [ running |-> (ex.running \ { x }) \cup { Head(ex.waiting) },
           waiting |-> Tail(ex.waiting) ]

\* lines 456-475: progress update, save_assessment, return.  saved_at is the second at
\* which assess_quiz_answers has already saved the assessment, -1 if it has not.
SubmitFinish(c, rec, assessment, path, saved_at) ==
    LET k == rec.key
        done == [ rec EXCEPT !.pc = "done", !.path = path, !.result = assessment ]
    IN  IF Raised(assessment)
        THEN /\ calls' = [calls EXCEPT ![c] = done]
             /\ UNCHANGED << assessFiles, progressFile >>
        ELSE /\ calls' = [calls EXCEPT ![c] = done]
             /\ progressFile' =
                   IF assessment.passed
                   THEN UpdateTopicProgress(progressFile, k, TRUE, assessment.score, clock')
                   ELSE progressFile
             /\ assessFiles' = [assessFiles EXCEPT ![k] =
                   SaveAssessmentDir(
                       IF saved_at >= 0
                       THEN SaveAssessmentDir(@, rec.quiz_version, assessment, saved_at)
                       ELSE @,
                       rec.quiz_version, assessment, clock')]

\* lines 420-454 up to the model call: the request arrives
SubmitStart(c, k, answers, use_ai_grading) ==
    /\ CallFree(c)
    /\ LET quiz == get_cached_quiz(k, -1)
           rec == [ pc |-> "await_llm", op |-> "submit", key |-> k,
                    use_ai_grading |-> use_ai_grading, answers |-> answers,
                    quiz |-> quiz, quiz_version |-> get_quiz_count(k) - 1,
                    pre |-> None, path |-> "", result |-> None ]
       IN  IF quiz = None
           THEN /\ calls' = [calls EXCEPT ![c] =
                      [ rec EXCEPT !.pc = "done", !.path = "not_found",
                                   !.result = Raise("404 Quiz not found") ]]
                /\ UNCHANGED << assessFiles, progressFile, clock >>
           ELSE IF use_ai_grading
           THEN LET pre == AssessScore(k, quiz, answers)
                IN  IF Raised(pre)
                    THEN /\ clock' = clock
                         /\ SubmitFinish(c, rec,
                              _create_fallback_assessment(quiz, rec.quiz_version,
                                                          answers, pre.raised),
                              "ai_failed", -1)
                    ELSE /\ calls' = [calls EXCEPT ![c] = [ rec EXCEPT !.pre = pre ]]
                         /\ UNCHANGED << assessFiles, progressFile, clock >>
           ELSE /\ clock' = clock
                /\ SubmitFinish(c, rec,
                     _create_fallback_assessment(quiz, rec.quiz_version, answers,
                                                 MSG_NOT_REQUESTED),
                     "not_requested", -1)
    /\ UNCHANGED << curriculums, lessonFiles, quizFiles, preps, sem, savedVersions,
                    fixedAnswers,
                    chatFiles, ret >>
    /\ executor' = IF calls'[c].pc = "await_llm"
                   THEN ExecutorSubmit(executor, CallInv(c)) ELSE executor

\* lines 439-475 from the model call on: the response arrives
SubmitResume(c, response) ==
    /\ calls[c].pc = "await_llm"
    /\ calls[c].op = "submit"
    /\ LET rec == calls[c]
           assessment == AssessResult(rec.pre, rec.quiz, rec.quiz_version, response)
       IN  IF Raised(assessment)
           THEN /\ clock' = clock
                /\ SubmitFinish(c, rec,
                     _create_fallback_assessment(rec.quiz, rec.quiz_version,
                                                 rec.answers, assessment.raised),
                     "ai_failed", -1)
           ELSE /\ clock' \in Later
                /\ SubmitFinish(c, rec, assessment, "ai_ok", clock)
    /\ UNCHANGED << curriculums, lessonFiles, quizFiles, preps, sem, savedVersions,
                    fixedAnswers,
                    chatFiles, ret >>
    /\ Executing(executor, CallInv(c))
    /\ executor' = ExecutorFinish(executor, CallInv(c))

\* a second passes
Tick ==
    /\ clock < MaxClock
    /\ clock' = clock + 1
    /\ UNCHANGED << curriculums, lessonFiles, quizFiles, assessFiles, progressFile,
                    calls, preps, sem, savedVersions, fixedAnswers,
                    chatFiles, ret, executor >>

(***************************************************************************)
(* content_cache.py: lessons                                               *)
(***************************************************************************)
\* get_cached_lesson(k): the lesson, None for a missing or unreadable file
get_cached_lesson(k) == LoadArtifact(lessonFiles[k])

(***************************************************************************)
(* learning.py generate_lesson, before and after its model call.           *)
(***************************************************************************)
LESSON_KEYS == { "topic_name", "introduction", "sections", "summary" }

LessonPayload(body, keys, minutes) ==
    [ dict |-> TRUE, keys |-> keys, body |-> body, estimated_time_minutes |-> minutes ]

\* what the model may answer to the lesson prompt
LessonResponses ==
    { LlmRaise(MSG_API_ERROR),
      LlmText("prose", PayloadList),
      LlmText("json", LessonPayload("L1", LESSON_KEYS \cup { "estimated_time_minutes" }, 20)),
      LlmText("fenced", LessonPayload("L2", LESSON_KEYS, 0)),
      LlmText("json", LessonPayload("L3", LESSON_KEYS \ { "summary" }, 20)) }

\* lines 125-131: Lesson(topic_name=data["topic_name"], ...), or the exception
BuildLesson(data) ==
    IF ~ data.dict THEN Raise(MSG_TYPE)
    ELSE IF ~ (LESSON_KEYS \subseteq data.keys) THEN Raise(MSG_KEY)
    ELSE [ body |-> data.body,
           estimated_time_minutes |->
               IF "estimated_time_minutes" \in data.keys
               THEN data.estimated_time_minutes ELSE DEFAULT_ESTIMATED_TIME ]

\* lines 120-131: the lesson made of the response, or the exception
LessonOf(response) ==
    IF response.kind = "raise" THEN Raise(response.error)
    ELSE LET data == _parse_json_response(response)
         IN  IF Raised(data) THEN data ELSE BuildLesson(data)

GenCall(op, k, force_new) ==
    [ pc |-> "await_llm", op |-> op, key |-> k, force_new |-> force_new,
      invoked |-> FALSE, result |-> None ]

Done(rec, result) == [ rec EXCEPT !.pc = "done", !.result = result ]

\* lines 58-66 of generate_lesson, run by call c (a direct request or a batch task)
LessonBegin(rec) ==
    IF get_cached_lesson(rec.key) # None THEN Done(rec, get_cached_lesson(rec.key))
    ELSE IF get_curriculum(rec.key[1]) = None THEN Done(rec, Raise(MSG_NOT_FOUND))
    ELSE [ rec EXCEPT !.invoked = TRUE ]

\* lines 120-136 of generate_lesson: the call record and the lesson file afterwards
LessonEnd(rec, response) == Done(rec, LessonOf(response))

\* a generate_lesson that forgets to cache the lesson
LessonFileNotSaved(file, response) == file

LessonFileAfter(file, response) ==
    IF Raised(LessonOf(response)) THEN file ELSE LessonOf(response)

(***************************************************************************)
(* learning.py generate_quiz, before and after its model call.             *)
(***************************************************************************)
QUIZ_KEYS == { "topic_name", "questions" }

QuizPayload(name, keys, questions) ==
    [ dict |-> TRUE, keys |-> keys, topic_name |-> name, questions |-> questions,
      passing_score |-> 50 ]

\* what the model may answer to the quiz prompt
QuizResponses ==
    { LlmRaise(MSG_API_ERROR),
      LlmText("prose", PayloadList),
      LlmText("json", QuizPayload("A", QUIZ_KEYS, SampleQuizA.questions)),
      LlmText("fenced", QuizPayload("B", QUIZ_KEYS \cup { "passing_score" },
                                    SampleQuizB.questions)),
      LlmText("json", QuizPayload("C", { "topic_name" }, << >>)),
      LlmText("json", QuizPayload("E", QUIZ_KEYS, << >>)) }

\* lines 202-206: Quiz(topic_name=..., questions=[...], passing_score=80), or the exception
BuildQuiz(data) ==
    IF ~ data.dict THEN Raise(MSG_TYPE)
    ELSE IF ~ (QUIZ_KEYS \subseteq data.keys) THEN Raise(MSG_KEY)
    ELSE Quiz(data.topic_name, data.questions, PASSING_SCORE)

\* lines 197-206: the quiz made of the response, or the exception
QuizOf(response) ==
    IF response.kind = "raise" THEN Raise(response.error)
    ELSE LET data == _parse_json_response(response)
         IN  IF Raised(data) THEN data ELSE BuildQuiz(data)

\* lines 146-162 of generate_quiz
QuizBegin(rec) ==
    IF ~ rec.force_new /\ get_cached_quiz(rec.key, -1) # None
    THEN Done(rec, [ quiz |-> get_cached_quiz(rec.key, -1),
                     version |-> get_quiz_count(rec.key) - 1 ])
    ELSE IF get_curriculum(rec.key[1]) = None THEN Done(rec, Raise(MSG_NOT_FOUND))
    ELSE [ rec EXCEPT !.invoked = TRUE ]

\* lines 197-211 of generate_quiz: the call record and the quiz directory afterwards
QuizEnd(rec, response, dir) ==
    IF Raised(QuizOf(response)) THEN Done(rec, QuizOf(response))
    ELSE Done(rec, [ quiz |-> QuizOf(response), version |-> NextVersion(dir) ])

\* a generate_quiz that writes the file before it has checked the fields
QuizDirAfterEager(dir, response) ==
    IF response.kind = "raise" \/ Raised(_parse_json_response(response)) THEN dir
    ELSE IF Raised(QuizOf(response))
         THEN SaveQuizDir(dir, Quiz("partial", << >>, PASSING_SCORE))
    ELSE SaveQuizDir(dir, QuizOf(response))

QuizDirAfter(dir, response) ==
    IF Raised(QuizOf(response)) THEN dir ELSE SaveQuizDir(dir, QuizOf(response))

(***************************************************************************)
(* The lesson and quiz endpoints of main.py: direct requests.              *)
(***************************************************************************)
\* POST /api/lesson arrives: generate_lesson up to its model call
LessonStart(c, k) ==
    /\ CallFree(c)
    /\ calls' = [calls EXCEPT ![c] = LessonBegin(GenCall("lesson", k, FALSE))]
    /\ UNCHANGED << curriculums, lessonFiles, quizFiles, assessFiles, progressFile,
                    clock, preps, sem, savedVersions, fixedAnswers,
                    chatFiles, ret >>
    /\ executor' = IF calls'[c].pc = "await_llm"
                   THEN ExecutorSubmit(executor, CallInv(c)) ELSE executor

\* the model call of a generate_lesson returns or raises
LessonResume(c, response) ==
    /\ calls[c].pc = "await_llm"
    /\ calls[c].op = "lesson"
    /\ calls' = [calls EXCEPT ![c] = LessonEnd(@, response)]
    /\ lessonFiles' = [lessonFiles EXCEPT ![calls[c].key] = LessonFileAfter(@, response)]
    /\ UNCHANGED << curriculums, quizFiles, assessFiles, progressFile, clock, preps,
                    sem, savedVersions, fixedAnswers,
                    chatFiles, ret >>
    /\ Executing(executor, CallInv(c))
    /\ executor' = ExecutorFinish(executor, CallInv(c))

\* POST /api/quiz (force_new = FALSE) or /api/quiz/new (force_new = TRUE) arrives
QuizStart(c, k, force_new) ==
    /\ CallFree(c)
    /\ calls' = [calls EXCEPT ![c] = QuizBegin(GenCall("quiz", k, force_new))]
    /\ UNCHANGED << curriculums, lessonFiles, quizFiles, assessFiles, progressFile,
                    clock, preps, sem, savedVersions, fixedAnswers,
                    chatFiles, ret >>
    /\ executor' = IF calls'[c].pc = "await_llm"
                   THEN ExecutorSubmit(executor, CallInv(c)) ELSE executor

\* the model call of a generate_quiz returns or raises
QuizResume(c, response) ==
    /\ calls[c].pc = "await_llm"
    /\ calls[c].op = "quiz"
    /\ LET k == calls[c].key
       IN  /\ calls' = [calls EXCEPT ![c] = QuizEnd(@, response, quizFiles[k])]
           /\ quizFiles' = [quizFiles EXCEPT ![k] = QuizDirAfter(@, response)]
           /\ savedVersions' =
                 IF Raised(QuizOf(response)) THEN savedVersions
                 ELSE [savedVersions EXCEPT ![k] = Append(@, NextVersion(quizFiles[k]))]
    /\ UNCHANGED << curriculums, lessonFiles, assessFiles, progressFile, clock, preps,
                    sem, fixedAnswers,
                    chatFiles, ret >>
    /\ Executing(executor, CallInv(c))
    /\ executor' = ExecutorFinish(executor, CallInv(c))

(***************************************************************************)
(* main.py prepare_curriculum_content: the request, the generator          *)
(* generate_content that streams the events, and the tasks of a batch.     *)
(* A generator step runs from one suspension (a yield, the gather) to the  *)
(* next; a task runs from its semaphore acquire to its model call, and     *)
(* from the return of the model call to its release.                       *)
(***************************************************************************)
KeyBefore(a, b) == a[2] < b[2] \/ (a[2] = b[2] /\ a[3] < b[3])

RECURSIVE InOrder(_)
\* the keys of S in the order of the two enumerate() loops
InOrder(S) ==
    IF S = {} THEN << >>
    ELSE LET first == CHOOSE a \in S : \A b \in S \ {a} : KeyBefore(a, b)
         IN  << first >> \o InOrder(S \ {first})

Task(type, k) == [ type |-> type, cluster_index |-> k[2], topic_index |-> k[3],
                   topic_name |-> k ]

\* an enumeration that asks for the quiz before the lesson and only looks whether
\* the lesson file is there
TopicTasksQuizFirst(k) ==
    (IF get_quiz_count(k) = 0 THEN << Task("quiz", k) >> ELSE << >>)
    \o (IF lessonFiles[k] = None THEN << Task("lesson", k) >> ELSE << >>)

\* lines 246-262: the tasks of one topic
TopicTasks(k) ==
    (IF get_cached_lesson(k) = None THEN << Task("lesson", k) >> ELSE << >>)
    \o (IF get_quiz_count(k) = 0 THEN << Task("quiz", k) >> ELSE << >>)

RECURSIVE Concat(_)
Concat(seqs) == IF seqs = << >> THEN << >> ELSE Head(seqs) \o Concat(Tail(seqs))

\* lines 242-262: the task list of a curriculum
BuildTasks(id) ==
    LET order == InOrder(TopicKeys(id))
    IN  Concat([ i \in 1 .. Len(order) |-> TopicTasks(order[i]) ])

PendingTask == [ pc |-> "pending" ]

\* the last index of the batch that begins after batch_start
BatchEnd(prep) == Min(prep.batch_start + BATCH_SIZE, prep.total)

BatchOf(prep) == prep.batch_start + 1 .. BatchEnd(prep)

\* the tasks gather is running for preparation p
TaskIds(p) == IF preps[p].pc = "gather" THEN BatchOf(preps[p]) ELSE {}

StartEvent(total) == [ type |-> "start", total |-> total ]

NothingToDoEvent == [ type |-> "complete", generated_count |-> 0,
                      message |-> "All content already prepared" ]

BatchStartEvent(prep) ==
    [ type |-> "batch_start", batch_size |-> BatchEnd(prep) - prep.batch_start,
      current |-> prep.batch_start + 1, total |-> prep.total,
      items |-> SubSeq(prep.tasks, prep.batch_start + 1, BatchEnd(prep)) ]

\* a batch_complete event that reports the generated items as completed
BatchCompleteEventGenerated(prep) ==
    [ type |-> "batch_complete", completed |-> prep.generated_count, total |-> prep.total,
      generated_count |-> prep.generated_count ]

BatchCompleteEvent(prep) ==
    [ type |-> "batch_complete", completed |-> prep.completed, total |-> prep.total,
      generated_count |-> prep.generated_count ]

CompleteEvent(prep) ==
    [ type |-> "complete", generated_count |-> prep.generated_count,
      errors |-> prep.errors ]

\* lines 234-273: the request and the generator up to its first event
PrepBegin(id) ==
    IF get_curriculum(id) = None THEN [ pc |-> "done", id |-> id, result |-> Raise(MSG_NOT_FOUND) ]
    ELSE LET tasks == BuildTasks(id)
         IN  [ pc |-> IF Len(tasks) = 0 THEN "done" ELSE "batch_start",
               id |-> id, result |-> None,
               tasks |-> tasks, total |-> Len(tasks),
               batch_start |-> 0, generated_count |-> 0, errors |-> << >>,
               completed |-> 0,
               events |-> IF Len(tasks) = 0 THEN << NothingToDoEvent >>
                          ELSE << StartEvent(Len(tasks)) >>,
               tcalls |-> [ i \in 1 .. Len(tasks) |-> PendingTask ] ]

ErrorEntry(task, result) ==
    [ type |-> task.type, topic_name |-> task.topic_name, error |-> result.raised ]

\* a result loop that counts a failed task as generated too
ProcessResultCountAll(prep, i) ==
    [ prep EXCEPT !.completed = @ + 1,
                  !.generated_count = @ + 1,
                  !.errors = IF Raised(prep.tcalls[i].result)
                             THEN Append(@, ErrorEntry(prep.tasks[i], prep.tcalls[i].result))
                             ELSE @ ]

\* lines 315-326: one turn of the result loop, for task i
ProcessResult(prep, i) ==
    IF Raised(prep.tcalls[i].result)
    THEN [ prep EXCEPT !.completed = @ + 1,
                       !.errors = Append(@, ErrorEntry(prep.tasks[i], prep.tcalls[i].result)) ]
    ELSE [ prep EXCEPT !.completed = @ + 1, !.generated_count = @ + 1 ]

RECURSIVE ProcessResults(_, _, _)
\* lines 314-326: the result loop over tasks i .. last
ProcessResults(prep, i, last) ==
    IF i > last THEN prep ELSE ProcessResults(ProcessResult(prep, i), i + 1, last)

\* a limiter that never makes a task wait
CanAcquireAlways(permits) == TRUE

\* asyncio.Semaphore: acquire passes while the counter is positive
CanAcquire(permits) == permits > 0

\* an exit of "async with" that keeps the permit
ReleaseNever(permits) == permits

\* the exit of "async with _prepare_semaphore": the permit goes back
Release(permits) == permits + 1

\* POST /api/curriculums/{id}/prepare arrives and the stream is opened
PrepStart(p, id) ==
    /\ preps[p].pc = "idle"
    /\ preps' = [preps EXCEPT ![p] = PrepBegin(id)]
    /\ UNCHANGED << curriculums, lessonFiles, quizFiles, assessFiles, progressFile,
                    clock, calls, sem, savedVersions, fixedAnswers,
                    chatFiles, ret, executor >>

\* lines 300-305: the batch_start event of the next batch
PrepBatchStart(p) ==
    /\ preps[p].pc = "batch_start"
    /\ preps' = [preps EXCEPT ![p] =
                   [ @ EXCEPT !.pc = "gather",
                              !.events = Append(@, BatchStartEvent(preps[p])) ]]
    /\ UNCHANGED << curriculums, lessonFiles, quizFiles, assessFiles, progressFile,
                    clock, calls, sem, savedVersions, fixedAnswers,
                    chatFiles, ret, executor >>

\* lines 284-296: task i of the running batch passes the semaphore and runs
\* generate_lesson or generate_quiz up to the model call
TaskStart(p, i) ==
    /\ preps[p].pc = "gather"
    /\ i \in BatchOf(preps[p])
    /\ preps[p].tcalls[i].pc = "pending"
    /\ CanAcquire(sem)
    /\ LET task == preps[p].tasks[i]
           rec  == IF task.type = "lesson"
                   THEN LessonBegin(GenCall("lesson", task.topic_name, FALSE))
                   ELSE QuizBegin(GenCall("quiz", task.topic_name, FALSE))
       IN  /\ preps' = [preps EXCEPT ![p].tcalls[i] = rec]
           /\ sem' = IF rec.pc = "done" THEN sem ELSE sem - 1
    /\ UNCHANGED << curriculums, lessonFiles, quizFiles, assessFiles, progressFile,
                    clock, calls, savedVersions, fixedAnswers,
                    chatFiles, ret >>
    /\ executor' = IF preps'[p].tcalls[i].pc = "await_llm"
                   THEN ExecutorSubmit(executor, TaskInv(p, i)) ELSE executor

\* the model call of a lesson task returns or raises; the task leaves the semaphore
TaskLessonResume(p, i, response) ==
    /\ preps[p].pc = "gather"
    /\ i \in BatchOf(preps[p])
    /\ preps[p].tcalls[i].pc = "await_llm"
    /\ preps[p].tcalls[i].op = "lesson"
    /\ preps' = [preps EXCEPT ![p].tcalls[i] = LessonEnd(@, response)]
    /\ lessonFiles' = [lessonFiles EXCEPT ![preps[p].tcalls[i].key] =
                          LessonFileAfter(@, response)]
    /\ sem' = Release(sem)
    /\ UNCHANGED << curriculums, quizFiles, assessFiles, progressFile, clock, calls,
                    savedVersions, fixedAnswers,
                    chatFiles, ret >>
    /\ Executing(executor, TaskInv(p, i))
    /\ executor' = ExecutorFinish(executor, TaskInv(p, i))

\* the model call of a quiz task returns or raises; the task leaves the semaphore
TaskQuizResume(p, i, response) ==
    /\ preps[p].pc = "gather"
    /\ i \in BatchOf(preps[p])
    /\ preps[p].tcalls[i].pc = "await_llm"
    /\ preps[p].tcalls[i].op = "quiz"
    /\ LET k == preps[p].tcalls[i].key
       IN  /\ preps' = [preps EXCEPT ![p].tcalls[i] = QuizEnd(@, response, quizFiles[k])]
           /\ quizFiles' = [quizFiles EXCEPT ![k] = QuizDirAfter(@, response)]
           /\ savedVersions' =
                 IF Raised(QuizOf(response)) THEN savedVersions
                 ELSE [savedVersions EXCEPT ![k] = Append(@, NextVersion(quizFiles[k]))]
    /\ sem' = Release(sem)
    /\ UNCHANGED << curriculums, lessonFiles, assessFiles, progressFile, clock, calls,
                    fixedAnswers,
                    chatFiles, ret >>
    /\ Executing(executor, TaskInv(p, i))
    /\ executor' = ExecutorFinish(executor, TaskInv(p, i))

\* lines 308-329: gather has every result of the batch; the result loop and the
\* batch_complete event
PrepBatchComplete(p) ==
    /\ preps[p].pc = "gather"
    /\ \A i \in BatchOf(preps[p]) : preps[p].tcalls[i].pc = "done"
    /\ LET after == ProcessResults(preps[p], preps[p].batch_start + 1, BatchEnd(preps[p]))
           more  == BatchEnd(preps[p]) < preps[p].total
       IN  preps' = [preps EXCEPT ![p] =
                       [ after EXCEPT !.pc = IF more THEN "batch_start" ELSE "complete",
                                      !.batch_start = IF more THEN @ + BATCH_SIZE ELSE @,
                                      !.events = Append(@, BatchCompleteEvent(after)) ]]
    /\ UNCHANGED << curriculums, lessonFiles, quizFiles, assessFiles, progressFile,
                    clock, calls, sem, savedVersions, fixedAnswers,
                    chatFiles, ret, executor >>

\* line 332: the complete event
PrepComplete(p) ==
    /\ preps[p].pc = "complete"
    /\ preps' = [preps EXCEPT ![p] =
                   [ @ EXCEPT !.pc = "done",
                              !.events = Append(@, CompleteEvent(preps[p])) ]]
    /\ UNCHANGED << curriculums, lessonFiles, quizFiles, assessFiles, progressFile,
                    clock, calls, sem, savedVersions, fixedAnswers,
                    chatFiles, ret, executor >>

(***************************************************************************)
(* The state after start-up, with both curricula stored and no content.    *)
(***************************************************************************)
CallIds == 1 .. 2
PrepIds == 1 .. 2

IdleCall == [ pc |-> "idle" ]
IdlePrep == [ pc |-> "idle" ]

InitRest ==
    /\ curriculums = CurriculumIds
    /\ lessonFiles = [ k \in Keys |-> None ]
    /\ assessFiles = [ k \in Keys |-> EmptyDir ]
    /\ progressFile = << >>
    /\ clock = 0
    /\ calls = [ c \in CallIds |-> IdleCall ]
    /\ preps = [ p \in PrepIds |-> IdlePrep ]
    /\ sem = SEMAPHORE_PERMITS
    /\ savedVersions = [ k \in Keys |-> << >> ]

InitIdle ==
    /\ InitRest
    /\ quizFiles = [ k \in Keys |-> EmptyDir ]
    /\ fixedAnswers = << >>
    /\ chatFiles = [ k \in Keys |-> << >> ]
    /\ ret = None
    /\ executor = IdleExecutor

(***************************************************************************)
(* SpecQuizStore: save_quiz called directly, one call after the other, on  *)
(* one topic key of each curriculum.                                       *)
(***************************************************************************)
StoreKeys == { << "c1", 0, 0 >>, << "c2", 0, 0 >> }

NextQuizStore == \E k \in StoreKeys, quiz \in SampleQuizzes : save_quiz(k, quiz)

SpecQuizStore == InitIdle /\ [][NextQuizStore]_vars

\* C1: N successive save_quiz calls on a key return the versions 0, 1, ..., N-1 in
\* call order; afterwards get_quiz_count is N and the stored versions are exactly
\* 0 .. N-1.
C1_DenseVersions ==
    \A k \in Keys :
        LET n == Len(savedVersions[k])
        IN  /\ savedVersions[k] = [ i \in 1 .. n |-> i - 1 ]
            /\ get_quiz_count(k) = n
            /\ DOMAIN quizFiles[k] = { QuizFileName(v) : v \in 0 .. n - 1 }

C1_Witness ==
    \E k \in StoreKeys : Len(savedVersions[k]) = 11 /\ get_quiz_count(k) = 11

\* C2: for every key holding N >= 1 versions, get_cached_quiz(key, -1) returns the
\* same artifact as get_cached_quiz(key, N-1).
C2_LatestIsHighest ==
    \A k \in Keys :
        get_quiz_count(k) >= 1 =>
            get_cached_quiz(k, -1) = get_cached_quiz(k, get_quiz_count(k) - 1)

(***************************************************************************)
(* SpecGrade: one submission of a fixed answer list against a stored quiz. *)
(* The stored quiz is any quiz generate_quiz can have saved: it keeps the  *)
(* questions of the model's JSON as they are (learning.py 202-206), so a   *)
(* quiz may have no question and a correct_index outside its options.      *)
(***************************************************************************)
GradeKey == << "c1", 0, 0 >>
BAD_INDEX == 4      \* an index outside the 4 options

SeqsUpTo(S, n) == UNION { [ 1 .. m -> S ] : m \in 0 .. n }

QuizSpace == { Quiz("G", qs, PASSING_SCORE) :
               qs \in SeqsUpTo({ Question(4, 1), Question(4, BAD_INDEX) }, MaxQuestions) }

AnswerLists == SeqsUpTo({ -1, 1, BAD_INDEX }, MaxAnswers)

InitGrade ==
    /\ InitRest
    /\ \E quiz \in QuizSpace :
          quizFiles = [ k \in Keys |-> IF k = GradeKey THEN SaveQuizDir(EmptyDir, quiz)
                                       ELSE EmptyDir ]
    /\ fixedAnswers \in AnswerLists
    /\ chatFiles = [ k \in Keys |-> << >> ]
    /\ ret = None
    /\ executor = IdleExecutor

NextGrade ==
    \/ /\ calls[1].pc = "idle"
       /\ \E use_ai_grading \in BOOLEAN :
             SubmitStart(1, GradeKey, fixedAnswers, use_ai_grading)
    \/ \E response \in AssessResponses : SubmitResume(1, response)

SpecGrade == InitGrade /\ [][NextGrade]_vars

\* the submissions that have returned or failed, other than with 404
Graded == { c \in CallIds : /\ calls[c].pc = "done"
                            /\ calls[c].op = "submit"
                            /\ calls[c].path # "not_found" }

Persisted(k, assessment) ==
    \E name \in DOMAIN assessFiles[k] : assessFiles[k][name] = assessment

\* C3: every submission against a stored quiz ends with a complete assessment
\* (score, passed, feedback) persisted and returned, never with an error.
C3_AlwaysPersisted ==
    \A c \in Graded :
        /\ ~ Raised(calls[c].result)
        /\ "question_feedback" \in calls[c].result.keys
        /\ Persisted(calls[c].key, calls[c].result)

\* the answers that agree with the correct index of their question
CorrectAnswers(quiz, answers) ==
    { i \in 1 .. Len(quiz.questions) :
        i <= Len(answers) /\ answers[i] = quiz.questions[i].correct_index }

\* round(x) of Python for x = 100 * c / t: to the nearest integer, a tie to the even one
RoundPercent(c, t) ==
    LET q == (100 * c) \div t
        r == (100 * c) % t
    IN  IF 2 * r > t THEN q + 1
        ELSE IF 2 * r < t THEN q
        ELSE IF q % 2 = 0 THEN q ELSE q + 1

C6_GradingNeverRaises ==
    \A c \in Graded :
        LET r == calls[c].result
            quiz == calls[c].quiz
        IN  /\ ~ Raised(r)
            /\ r.total_questions = Len(quiz.questions)
            /\ r.correct_count =
                 Cardinality({ i \in CorrectAnswers(quiz, calls[c].answers) :
                               0 <= calls[c].answers[i]
                               /\ calls[c].answers[i] < quiz.questions[i].options })

(***************************************************************************)
(* SpecGradePair: the same answer list submitted twice against the same    *)
(* stored quiz, each submission with or without AI grading, the model call *)
(* failing whenever it is made.                                            *)
(***************************************************************************)
NextGradePair ==
    \/ \E c \in CallIds :
          /\ calls[c].pc = "idle"
          /\ \E use_ai_grading \in BOOLEAN :
                SubmitStart(c, GradeKey, fixedAnswers, use_ai_grading)
    \/ \E c \in CallIds, response \in AssessFailures : SubmitResume(c, response)

SpecGradePair == InitGrade /\ [][NextGradePair]_vars

\* C4: for a fixed quiz and answer list, a submission whose AI grading failed and a
\* submission without AI grading produce identical correct_count, score and passed
\* (or fail alike), whatever the text of the model error.
C4_SameScoreOnBothPaths ==
    \A c, d \in Graded :
        (calls[c].path = "ai_failed" /\ calls[d].path = "not_requested") =>
            LET r == calls[c].result
                q == calls[d].result
            IN  /\ Raised(r) = Raised(q)
                /\ ~ Raised(r) =>
                      /\ r.correct_count = q.correct_count
                      /\ r.score = q.score
                      /\ r.passed = q.passed

C4_Witness ==
    \E c, d \in Graded :
        /\ calls[c].path = "ai_failed"
        /\ calls[d].path = "not_requested"
        /\ ~ Raised(calls[c].result)
        /\ calls[c].result.encouragement = "credits exhausted"
        /\ calls[c].result.passed
        /\ Len(calls[c].answers) = 3

(***************************************************************************)
(* SpecGen: direct lesson and quiz requests for one topic key, up to two   *)
(* in flight at a time, the model answering each in any way.               *)
(***************************************************************************)
GenKey == << "c1", 0, 0 >>

NextGen ==
    \/ \E c \in CallIds : LessonStart(c, GenKey)
    \/ \E c \in CallIds, response \in LessonResponses : LessonResume(c, response)
    \/ \E c \in CallIds, force_new \in BOOLEAN :
          /\ force_new => get_quiz_count(GenKey) < MaxGenQuizzes
          /\ QuizStart(c, GenKey, force_new)
    \/ \E c \in CallIds, response \in QuizResponses : QuizResume(c, response)

SpecGen == InitIdle /\ [][NextGen]_vars

\* C8: a generate_lesson or generate_quiz that fails (model call, parse, required
\* field) ends in an explicit failure and leaves the content store unchanged.
C8_FailureLeavesStore ==
    [][ \A c \in CallIds :
          ( /\ calls'[c] # calls[c]
            /\ calls'[c].pc = "done"
            /\ Raised(calls'[c].result) )
          => UNCHANGED << lessonFiles, quizFiles, assessFiles,
                    chatFiles, ret >> ]_vars

C8_Witness ==
    \E c \in CallIds :
        /\ calls[c].pc = "done"
        /\ calls[c].op = "quiz"
        /\ Raised(calls[c].result)
        /\ calls[c].result.raised = MSG_KEY
        /\ get_quiz_count(GenKey) = 1
        /\ lessonFiles[GenKey] # None

(***************************************************************************)
(* SpecGenSeq: two requests for the same topic key one after the other,    *)
(* the first in slot 1 and the second in slot 2, with no other writer.     *)
(* The store holds 0, 1, 2, 10 or 11 quiz versions and a lesson or none;   *)
(* at most one stored file has become unreadable.                          *)
(***************************************************************************)
RECURSIVE StoredQuizDir(_)
\* the directory after n save_quiz calls
StoredQuizDir(n) ==
    IF n = 0 THEN EmptyDir
    ELSE SaveQuizDir(StoredQuizDir(n - 1), IF n % 2 = 1 THEN SampleQuizA ELSE SampleQuizB)

StoredLesson == [ body |-> "L0", estimated_time_minutes |-> DEFAULT_ESTIMATED_TIME ]

\* the directories that differ from dir in at most one file, which is unreadable
Damaged(dir) ==
    { dir } \cup { [ dir EXCEPT ![name] = Corrupt ] : name \in DOMAIN dir }

Unreadable(dir) == \E name \in DOMAIN dir : dir[name] = Corrupt

InitGenSeq ==
    /\ curriculums = CurriculumIds
    /\ \E lesson \in { None, StoredLesson, Corrupt } :
          lessonFiles = [ k \in Keys |-> IF k = GenKey THEN lesson ELSE None ]
    /\ \E n \in { 0, 1, 2, 10, 11 } : \E dir \in Damaged(StoredQuizDir(n)) :
          quizFiles = [ k \in Keys |-> IF k = GenKey THEN dir ELSE EmptyDir ]
    /\ assessFiles = [ k \in Keys |-> EmptyDir ]
    /\ progressFile = << >>
    /\ clock = 0
    /\ calls = [ c \in CallIds |-> IdleCall ]
    /\ preps = [ p \in PrepIds |-> IdlePrep ]
    /\ sem = SEMAPHORE_PERMITS
    /\ savedVersions = [ k \in Keys |-> << >> ]
    /\ fixedAnswers = << >>
    /\ chatFiles = [ k \in Keys |-> << >> ]
    /\ ret = None
    /\ executor = IdleExecutor

\* slot c may take its request: slot 1 first, slot 2 once slot 1 has finished
Turn(c) == /\ calls[c].pc = "idle"
           /\ c = 2 => calls[1].pc = "done"

NextGenSeq ==
    \/ \E c \in CallIds : Turn(c) /\ LessonStart(c, GenKey)
    \/ \E c \in CallIds, response \in LessonResponses : LessonResume(c, response)
    \/ \E c \in CallIds, force_new \in BOOLEAN : Turn(c) /\ QuizStart(c, GenKey, force_new)
    \/ \E c \in CallIds, response \in QuizResponses : QuizResume(c, response)

SpecGenSeq == InitGenSeq /\ [][NextGenSeq]_vars

\* both requests have finished and are two generate_lesson calls, or two
\* generate_quiz calls with force_new = FALSE
TwoCalls == /\ calls[1].pc = "done"
            /\ calls[2].pc = "done"
            /\ calls[1].op = calls[2].op
            /\ ~ calls[1].force_new
            /\ ~ calls[2].force_new

\* C7 as stated: two successive calls invoke the model at most once in total and
\* the second returns the cached artifact.
C7_AtMostOneInvocation ==
    TwoCalls =>
        /\ ~ (calls[1].invoked /\ calls[2].invoked)
        /\ ~ Raised(calls[2].result)

\* C7 for a first call that returns an artifact: the second call does not invoke the
\* model and returns what the first returned. Refuted: with 10 stored versions of
\* which quiz_9 is unreadable the first call stores quiz_10 and the second still
\* reads quiz_9, misses and generates again.
C7_SecondCallCachedAnyStore ==
    (TwoCalls /\ ~ Raised(calls[1].result)) =>
        /\ ~ calls[2].invoked
        /\ calls[2].result = calls[1].result

\* C7 on a store without unreadable quiz files: if the first of two successive calls
\* returns an artifact, the two calls invoke the model at most once in total and the
\* second returns the cached artifact, the one the first returned (for a quiz with
\* the same version number).
C7_SecondCallCached ==
    (TwoCalls /\ ~ Raised(calls[1].result) /\ ~ Unreadable(quizFiles[GenKey])) =>
        /\ ~ calls[2].invoked
        /\ calls[2].result = calls[1].result
        /\ calls[2].op = "lesson" => calls[2].result = get_cached_lesson(GenKey)
        /\ calls[2].op = "quiz" => calls[2].result.quiz = get_cached_quiz(GenKey, -1)

C7_Witness ==
    /\ TwoCalls
    /\ calls[1].invoked
    /\ ~ Raised(calls[1].result)
    /\ ~ calls[2].invoked
    /\ calls[2].op = "quiz"
    /\ calls[2].result.version = 0

(***************************************************************************)
(* SpecPrep: one batch preparation of a curriculum whose store holds any    *)
(* combination of lessons and first quiz versions, so that it enumerates   *)
(* 0 to 6 tasks; the model answers or fails each task.                      *)
(***************************************************************************)
PrepLessonResponses ==
    { LlmRaise(MSG_API_ERROR),
      LlmText("json", LessonPayload("L1", LESSON_KEYS \cup { "estimated_time_minutes" }, 20)) }

PrepQuizResponses ==
    { LlmRaise(MSG_QUOTA),
      LlmText("json", QuizPayload("C", { "topic_name" }, << >>)),
      LlmText("json", QuizPayload("A", QUIZ_KEYS, SampleQuizA.questions)) }

InitPrep ==
    /\ curriculums = CurriculumIds
    /\ lessonFiles \in [ Keys -> { None, StoredLesson } ]
    /\ quizFiles \in [ Keys -> { EmptyDir, StoredQuizDir(1) } ]
    /\ \A k \in TopicKeys("c2") : lessonFiles[k] = None /\ quizFiles[k] = EmptyDir
    /\ assessFiles = [ k \in Keys |-> EmptyDir ]
    /\ progressFile = << >>
    /\ clock = 0
    /\ calls = [ c \in CallIds |-> IdleCall ]
    /\ preps = [ p \in PrepIds |-> IdlePrep ]
    /\ sem = SEMAPHORE_PERMITS
    /\ savedVersions = [ k \in Keys |-> << >> ]
    /\ fixedAnswers = << >>
    /\ chatFiles = [ k \in Keys |-> << >> ]
    /\ ret = None
    /\ executor = IdleExecutor

NextPrep ==
    \/ PrepStart(1, "c1")
    \/ PrepBatchStart(1)
    \/ \E i \in TaskIds(1) : TaskStart(1, i)
    \/ \E i \in TaskIds(1), response \in PrepLessonResponses :
          TaskLessonResume(1, i, response)
    \/ \E i \in TaskIds(1), response \in PrepQuizResponses :
          TaskQuizResume(1, i, response)
    \/ PrepBatchComplete(1)
    \/ PrepComplete(1)

SpecPrep == InitPrep /\ [][NextPrep]_vars

\* the tasks of a preparation that raised
FailedTasks(prep) ==
    { i \in 1 .. prep.total : prep.tcalls[i].pc = "done" /\ Raised(prep.tcalls[i].result) }

RECURSIVE ErrorsOf(_, _)
\* one entry per failed task among tasks i .. total, in task order
ErrorsOf(prep, i) ==
    IF i > prep.total THEN << >>
    ELSE (IF i \in FailedTasks(prep)
          THEN << [ type |-> prep.tasks[i].type, topic_name |-> prep.tasks[i].topic_name,
                    error |-> prep.tcalls[i].result.raised ] >>
          ELSE << >>) \o ErrorsOf(prep, i + 1)

LastEvent(prep) == prep.events[Len(prep.events)]

PrepOf(p) == IF p = 1 THEN "c1" ELSE "c2"

NextPrep2 ==
    \/ \E p \in PrepIds : PrepStart(p, PrepOf(p))
    \/ \E p \in PrepIds : PrepBatchStart(p)
    \/ \E p \in PrepIds : \E i \in TaskIds(p) : TaskStart(p, i)
    \/ \E p \in PrepIds : \E i \in TaskIds(p), response \in PrepLessonResponses :
          TaskLessonResume(p, i, response)
    \/ \E p \in PrepIds : \E i \in TaskIds(p), response \in PrepQuizResponses :
          TaskQuizResume(p, i, response)
    \/ \E p \in PrepIds : PrepBatchComplete(p)
    \/ \E p \in PrepIds : PrepComplete(p)

SpecPrep2 == InitIdle /\ [][NextPrep2]_vars

\* the batch tasks that hold a permit: between acquire and release a task is
\* suspended in its model call
InModelCall ==
    UNION { { << p, i >> : i \in { j \in TaskIds(p) : preps[p].tcalls[j].pc = "await_llm" } } :
            p \in PrepIds }

Quiescent == \A p \in PrepIds : preps[p].pc \in { "idle", "done" }

\* C9: at most 4 batch tasks are inside a model invocation at the same time, over
\* all preparations of the process, and every permit is released again whether the
\* task succeeds or raises.
C9_AtMostFourInModel ==
    /\ Cardinality(InModelCall) <= SEMAPHORE_PERMITS
    /\ sem + Cardinality(InModelCall) = SEMAPHORE_PERMITS
    /\ Quiescent => sem = SEMAPHORE_PERMITS

C9_Witness ==
    /\ Cardinality(InModelCall) = SEMAPHORE_PERMITS
    /\ \E i \in 1 .. 2 : << 2, i >> \in InModelCall
    /\ \E p \in PrepIds :
          /\ preps[p].pc = "gather"
          /\ \E i \in BatchOf(preps[p]) : preps[p].tcalls[i].pc = "pending"
          /\ \E i \in BatchOf(preps[p]) :
                preps[p].tcalls[i].pc = "done" /\ Raised(preps[p].tcalls[i].result)

\* the number of batches of T tasks
Batches(T) == (T + BATCH_SIZE - 1) \div BATCH_SIZE

\* the j-th event of a preparation with T >= 1 tasks is the one the sequence
\* start, (batch_start, batch_complete)*, complete has at that place
EventInPlace(prep, j) ==
    LET ev == prep.events[j]
        T  == prep.total
        k  == j \div 2
    IN  IF j = 1 THEN ev = [ type |-> "start", total |-> T ]
        ELSE IF j = 2 * Batches(T) + 2
             THEN ev.type = "complete" /\ "errors" \in DOMAIN ev
        ELSE IF j % 2 = 0
             THEN /\ ev.type = "batch_start"
                  /\ ev.current = BATCH_SIZE * (k - 1) + 1
                  /\ ev.total = T
                  /\ ev.batch_size = Min(BATCH_SIZE, T - BATCH_SIZE * (k - 1))
                  /\ ev.items = SubSeq(prep.tasks, ev.current, Min(BATCH_SIZE * k, T))
        ELSE /\ ev.type = "batch_complete"
             /\ ev.completed = Min(BATCH_SIZE * k, T)
             /\ ev.total = T

\* C11: with T = 0 the only event is complete{generated_count 0}; with T > 0 the
\* events are start{T}, then ceil(T/4) alternating batch_start/batch_complete pairs in
\* task order, the k-th batch_complete with completed = min(4k, T), then one complete;
\* no task of a batch has started before the batch_start of its batch (and so the
\* batch_complete of the batch before) is emitted.
C11_EventSequence ==
    \A p \in PrepIds :
        (preps[p].pc # "idle" /\ preps[p].result = None) =>
            LET prep == preps[p]
                T    == prep.total
            IN  /\ T = 0 =>
                      /\ prep.pc = "done"
                      /\ Len(prep.events) = 1
                      /\ prep.events[1].type = "complete"
                      /\ prep.events[1].generated_count = 0
                /\ T > 0 =>
                      /\ Len(prep.events) <= 2 * Batches(T) + 2
                      /\ \A j \in 1 .. Len(prep.events) : EventInPlace(prep, j)
                      /\ prep.pc = "done" <=> Len(prep.events) = 2 * Batches(T) + 2
                      /\ \A i \in 1 .. T :
                            prep.tcalls[i].pc # "pending" =>
                                Len(prep.events) >= 2 * Batches(i)
                      /\ \A i \in 1 .. T :
                            Len(prep.events) >= 2 * Batches(i) + 1 =>
                                prep.tcalls[i].pc = "done"
                /\ (T = 2 /\ prep.pc = "done" /\ FailedTasks(prep) = {}) =>
                      /\ Len(prep.events) = 4
                      /\ prep.events[4] = [ type |-> "complete", generated_count |-> 2,
                                            errors |-> << >> ]

C11_Witness ==
    /\ preps[1].pc = "done"
    /\ preps[1].total = 5
    /\ Len(preps[1].events) = 6
    /\ preps[1].events[3].completed = 4
    /\ preps[1].events[3].generated_count = 3
    /\ preps[1].events[5].completed = 5

C11_WitnessNothingToDo ==
    /\ preps[1].pc = "done"
    /\ preps[1].total = 0

(***************************************************************************)
(* content_cache.py called directly: save_lesson, save_quiz,               *)
(* save_assessment, the chat transcript, delete_curriculum_content, and    *)
(* a stored file becoming unreadable.                                      *)
(***************************************************************************)
\* curriculum ids a caller may name; "zz" never has content
ContentIds == CurriculumIds \cup { "zz" }

LessonOne == [ body |-> "L1", estimated_time_minutes |-> 20 ]
LessonTwo == [ body |-> "L2", estimated_time_minutes |-> DEFAULT_ESTIMATED_TIME ]

AssessmentOne == [ score |-> 50, passed |-> FALSE, quiz_version |-> 0 ]

\* _get_curriculum_dir(id).exists(): something was saved under the id
CurriculumDirExists(id) ==
    \E k \in Keys :
        /\ k[1] = id
        /\ \/ lessonFiles[k] # None
           \/ DOMAIN quizFiles[k] # {}
           \/ DOMAIN assessFiles[k] # {}
           \/ chatFiles[k] # << >>

\* the number of files and chat messages in the store
StoreFileCount ==
    LET n(k) == (IF lessonFiles[k] = None THEN 0 ELSE 1) + QuizCount(quizFiles[k])
                + Cardinality(DOMAIN assessFiles[k]) + Len(chatFiles[k])
        RECURSIVE Sum(_)
        Sum(S) == IF S = {} THEN 0
                  ELSE LET k == CHOOSE x \in S : TRUE IN n(k) + Sum(S \ {k})
    IN  Sum(Keys)

\* a write that keeps a lesson file that is already there
WriteLessonOnce(file, lesson) == IF file = None THEN lesson ELSE file

\* path.write_text(json.dumps(lesson.model_dump())): the file holds the new lesson
WriteLesson(file, lesson) == lesson

\* save_lesson(curriculum_id, cluster_index, topic_index, lesson)
save_lesson(k, lesson) ==
    /\ lessonFiles' = [lessonFiles EXCEPT ![k] = WriteLesson(@, lesson)]
    /\ ret' = [ call |-> "save_lesson", key |-> k, replaced |-> lessonFiles[k],
                 value |-> None ]
    /\ UNCHANGED << curriculums, quizFiles, assessFiles, progressFile, clock, calls,
                    preps, sem, savedVersions, fixedAnswers, chatFiles, executor >>

\* save_assessment(curriculum_id, cluster_index, topic_index, quiz_version, assessment)
save_assessment(k, quiz_version, assessment) ==
    /\ assessFiles' = [assessFiles EXCEPT ![k] =
                          SaveAssessmentDir(@, quiz_version, assessment, clock)]
    /\ ret' = [ call |-> "save_assessment", value |-> None ]
    /\ UNCHANGED << curriculums, lessonFiles, quizFiles, progressFile, clock, calls,
                    preps, sem, savedVersions, fixedAnswers, chatFiles, executor >>

get_chat_history(k) == chatFiles[k]

\* a transcript that puts the new message first
PrependMessage(history, message) == << message >> \o history

\* the transcript with the message added at its end
AppendMessage(history, message) == Append(history, message)

\* append_chat_message(curriculum_id, cluster_index, topic_index, role, content)
append_chat_message(k, message) ==
    /\ chatFiles' = [chatFiles EXCEPT ![k] = AppendMessage(@, message)]
    /\ ret' = [ call |-> "append_chat_message",
                 value |-> [ history |-> AppendMessage(chatFiles[k], message) ] ]
    /\ UNCHANGED << curriculums, lessonFiles, quizFiles, assessFiles, progressFile,
                    clock, calls, preps, sem, savedVersions, fixedAnswers, executor >>

\* an rmtree that takes the content of every curriculum
RmTreeAll(files, id, empty) == [ k \in DOMAIN files |-> empty ]

\* shutil.rmtree(curriculum_dir), on one kind of artifact
RmTree(files, id, empty) ==
    [ k \in DOMAIN files |-> IF k[1] = id THEN empty ELSE files[k] ]

\* an rmtree called without looking whether the directory exists
DeleteOutcomeUnguarded(exists) == IF exists THEN None ELSE Raise(MSG_NOT_FOUND)

\* lines 186-189: rmtree runs only if curriculum_dir.exists(); the call returns None
DeleteOutcome(exists) == None

\* delete_curriculum_content(curriculum_id)
delete_curriculum_content(id) ==
    /\ lessonFiles' = RmTree(lessonFiles, id, None)
    /\ quizFiles' = RmTree(quizFiles, id, EmptyDir)
    /\ assessFiles' = RmTree(assessFiles, id, EmptyDir)
    /\ chatFiles' = RmTree(chatFiles, id, << >>)
    /\ savedVersions' = RmTree(savedVersions, id, << >>)
    /\ ret' = [ call |-> "delete_curriculum_content", id |-> id,
                 existed |-> CurriculumDirExists(id),
                 value |-> DeleteOutcome(CurriculumDirExists(id)) ]
    /\ UNCHANGED << curriculums, progressFile, clock, calls, preps, sem, fixedAnswers, executor >>

\* a stored lesson, quiz or assessment file is damaged on disk
CorruptFile(k) ==
    /\ \/ /\ lessonFiles[k] \notin { None, Corrupt }
          /\ lessonFiles' = [lessonFiles EXCEPT ![k] = Corrupt]
          /\ UNCHANGED << quizFiles, assessFiles >>
       \/ /\ \E name \in DOMAIN quizFiles[k] :
                /\ quizFiles[k][name] # Corrupt
                /\ quizFiles' = [quizFiles EXCEPT ![k][name] = Corrupt]
          /\ UNCHANGED << lessonFiles, assessFiles >>
       \/ /\ \E name \in DOMAIN assessFiles[k] :
                /\ assessFiles[k][name] # Corrupt
                /\ assessFiles' = [assessFiles EXCEPT ![k][name] = Corrupt]
          /\ UNCHANGED << lessonFiles, quizFiles >>
    /\ UNCHANGED << curriculums, progressFile, clock, calls, preps, sem, savedVersions,
                    fixedAnswers, chatFiles, ret, executor >>

(***************************************************************************)
(* SpecStore: the store functions called one after the other on one topic  *)
(* key of each curriculum, up to MaxStoreFiles artifacts in all.           *)
(***************************************************************************)
NextStore ==
    \/ \E k \in StoreKeys, lesson \in { LessonOne, LessonTwo } :
          /\ StoreFileCount < MaxStoreFiles \/ lessonFiles[k] # None
          /\ save_lesson(k, lesson)
    \/ \E k \in StoreKeys, quiz \in SampleQuizzes :
          /\ StoreFileCount < MaxStoreFiles
          /\ save_quiz(k, quiz)
    \/ \E k \in StoreKeys :
          /\ StoreFileCount < MaxStoreFiles
          /\ save_assessment(k, 0, AssessmentOne)
    \/ \E k \in StoreKeys :
          /\ StoreFileCount < MaxStoreFiles
          /\ append_chat_message(k, [ role |-> "user", content |-> "hi" ])
    \/ \E k \in StoreKeys : CorruptFile(k)
    \/ \E id \in ContentIds : delete_curriculum_content(id)
    \/ Tick

SpecStore == InitIdle /\ [][NextStore]_vars

\* every read of a key of curriculum id finds nothing
NoContent(id) ==
    \A k \in Keys :
        k[1] = id =>
            /\ get_cached_lesson(k) = None
            /\ get_cached_quiz(k, -1) = None
            /\ get_cached_quiz(k, 0) = None
            /\ get_quiz_count(k) = 0
            /\ DOMAIN assessFiles[k] = {}
            /\ get_chat_history(k) = << >>

\* C12: after delete_curriculum_content(id) every read under id finds nothing, the
\* content of every other curriculum is unchanged, and the call does not raise, also
\* when id has no content (a repeated call, an id never used).
C12_DeleteIsTotal ==
    [][ \A id \in ContentIds :
          delete_curriculum_content(id) =>
              /\ NoContent(id)'
              /\ ~ Raised(ret'.value)
              /\ \A k \in Keys :
                    k[1] # id =>
                        /\ lessonFiles'[k] = lessonFiles[k]
                        /\ quizFiles'[k] = quizFiles[k]
                        /\ assessFiles'[k] = assessFiles[k]
                        /\ chatFiles'[k] = chatFiles[k]
              /\ ~ CurriculumDirExists(id) => UNCHANGED storeVars ]_vars

\* the content of "c1" has just been deleted and "c2" still has a lesson and a quiz
C12_Witness ==
    /\ ret # None
    /\ ret.call = "delete_curriculum_content"
    /\ ret.id = "c1"
    /\ ret.existed
    /\ NoContent("c1")
    /\ lessonFiles[<< "c2", 0, 0 >>] # None
    /\ DOMAIN quizFiles[<< "c2", 0, 0 >>] # {}

\* delete_curriculum_content has just been called for an id without content
C12_WitnessNoContent ==
    /\ ret # None
    /\ ret.call = "delete_curriculum_content"
    /\ ~ ret.existed
    /\ ret.id = "zz"
    /\ chatFiles[<< "c1", 0, 0 >>] # << >>

RECURSIVE SortedReverse(_)
\* sorted(names, reverse=True)
SortedReverse(names) ==
    IF names = {} THEN << >>
    ELSE << SortedLast(names) >> \o SortedReverse(names \ { SortedLast(names) })

RECURSIVE UpToUnderscore(_)
\* the characters of a string before its first "_"
UpToUnderscore(str) ==
    IF str = << >> \/ Head(str) = CH_UNDERSCORE THEN << >>
    ELSE << Head(str) >> \o UpToUnderscore(Tail(str))

RECURSIVE ParseInt(_, _)
\* int(text) for a string of digits, continuing from the value acc
ParseInt(text, acc) ==
    IF text = << >> THEN acc
    ELSE ParseInt(Tail(text), 10 * acc + (Head(text) - CH_ZERO))

\* lines 165-171: int(path.stem.split("_")[1])
VersionOfName(name) ==
    ParseInt(UpToUnderscore(SubSeq(name, Len(STR_QUIZ_) + 1, Len(name))), 0)

\* the second at which save_assessment made the name
CreatedAt(name) ==
    LET n == Len(name) - Len(STR_JSON)
    IN  10 * (name[n - 1] - CH_ZERO) + (name[n] - CH_ZERO)

\* lines 161-172: the record read from one file
LoadAssessment(name, content) ==
    IF "quiz_version" \in DOMAIN content THEN content
    ELSE [ quiz_version |-> VersionOfName(name) ] @@ content

\* the paths get_assessments appends a record for, in its order
AssessmentPaths(dir) ==
    SelectSeq(SortedReverse(DOMAIN dir), LAMBDA name : dir[name] # Corrupt)

AssessmentsOf(dir) ==
    LET paths == AssessmentPaths(dir)
    IN  [ i \in 1 .. Len(paths) |-> LoadAssessment(paths[i], dir[paths[i]]) ]

get_assessments(k) == AssessmentsOf(assessFiles[k])

(***************************************************************************)
(* SpecAssess: save_assessment called directly on one topic key for quiz   *)
(* versions 0, 1 and 10, up to MaxAssessments files, while seconds pass.   *)
(***************************************************************************)
AssessVersions == { 0, 1, 10 }

AssessmentTwo == [ score |-> 100, passed |-> TRUE ]

NextAssess ==
    \/ \E quiz_version \in AssessVersions, assessment \in { AssessmentOne, AssessmentTwo } :
          /\ Cardinality(DOMAIN assessFiles[GradeKey]) < MaxAssessments
          /\ save_assessment(GradeKey, quiz_version, assessment)
    \/ Tick

SpecAssess == InitIdle /\ [][NextAssess]_vars

\* C14: a save_assessment call adds one record to what get_assessments returns and
\* leaves every earlier record present and unchanged, whatever the quiz version and
\* the second of the call.
C14_NeverOverwrites ==
    [][ \A quiz_version \in AssessVersions, assessment \in { AssessmentOne, AssessmentTwo } :
          save_assessment(GradeKey, quiz_version, assessment) =>
              /\ Len(get_assessments(GradeKey)') = Len(get_assessments(GradeKey)) + 1
              /\ \A name \in DOMAIN assessFiles[GradeKey] :
                    /\ name \in DOMAIN assessFiles'[GradeKey]
                    /\ assessFiles'[GradeKey][name] = assessFiles[GradeKey][name] ]_vars

\* C15: get_assessments returns the records newest first by creation time: a record
\* created later never comes after a record created earlier.
C15_NewestFirst ==
    LET paths == AssessmentPaths(assessFiles[GradeKey])
    IN  \A i, j \in 1 .. Len(paths) :
            i < j => CreatedAt(paths[i]) >= CreatedAt(paths[j])

\* C16: an unreadable stored artifact is never escalated by a read: get_cached_lesson
\* and get_cached_quiz return None for it, get_assessments skips it and returns every
\* readable record, and no read raises.
C16_CorruptionIsAbsence ==
    \A k \in Keys :
        /\ ~ Raised(get_cached_lesson(k))
        /\ lessonFiles[k] = Corrupt => get_cached_lesson(k) = None
        /\ lessonFiles[k] \notin { Corrupt, None } => get_cached_lesson(k) = lessonFiles[k]
        /\ \A version \in -1 .. get_quiz_count(k) :
              LET path == CachedQuizPath(quizFiles[k], version)
              IN  /\ ~ Raised(get_cached_quiz(k, version))
                  /\ (path # NoPath /\ quizFiles[k][path] = Corrupt)
                        => get_cached_quiz(k, version) = None
                  /\ (path # NoPath /\ quizFiles[k][path] # Corrupt)
                        => get_cached_quiz(k, version) = quizFiles[k][path]
        /\ Len(get_assessments(k))
              = Cardinality({ name \in DOMAIN assessFiles[k] : assessFiles[k][name] # Corrupt })
        /\ \A name \in DOMAIN assessFiles[k] :
              assessFiles[k][name] # Corrupt =>
                  \E i \in 1 .. Len(get_assessments(k)) :
                      get_assessments(k)[i] = assessFiles[k][name]

\* a key with an unreadable lesson, an unreadable and a readable assessment
C16_Witness ==
    \E k \in Keys :
        /\ lessonFiles[k] = Corrupt
        /\ Cardinality(DOMAIN assessFiles[k]) = 2
        /\ Len(get_assessments(k)) = 1

\* a key whose latest quiz file is unreadable and whose version 0 is readable
C16_WitnessQuiz ==
    \E k \in Keys :
        /\ get_quiz_count(k) = 2
        /\ get_cached_quiz(k, -1) = None
        /\ get_cached_quiz(k, 0) # None

(***************************************************************************)
(* SpecProgress: quiz submissions one after the other against one stored   *)
(* two-question quiz, with answer lists that pass and that fail.           *)
(***************************************************************************)
ProgressAnswers == { << 1, 1 >>, << 1, 0 >>, << >> }

InitProgress ==
    /\ InitRest
    /\ quizFiles = [ k \in Keys |-> IF k = GradeKey THEN StoredQuizDir(1) ELSE EmptyDir ]
    /\ fixedAnswers = << >>
    /\ chatFiles = [ k \in Keys |-> << >> ]
    /\ ret = None
    /\ executor = IdleExecutor

NextProgress ==
    \/ \E answers \in ProgressAnswers, use_ai_grading \in BOOLEAN :
          SubmitStart(1, GradeKey, answers, use_ai_grading)
    \/ \E response \in AssessResponses : SubmitResume(1, response)

SpecProgress == InitProgress /\ [][NextProgress]_vars

\* the progress entry of topic key k, or None
TopicProgress(file, k) ==
    IF k[1] \in DOMAIN file /\ << k[2], k[3] >> \in DOMAIN file[k[1]].topics
    THEN file[k[1]].topics[<< k[2], k[3] >>]
    ELSE None

\* C17: a submission marks its topic completed, with quiz_score the score of the
\* assessment it returns, exactly when that assessment has passed = TRUE; a submission
\* that fails the quiz leaves the progress of the topic as it was.
C17_ProgressIffPassed ==
    [][ \A c \in CallIds :
          ( /\ calls'[c] # calls[c]
            /\ calls'[c].pc = "done"
            /\ calls'[c].op = "submit" )
          => LET result == calls'[c].result
                 k == calls'[c].key
             IN  IF ~ Raised(result) /\ result.passed
                 THEN /\ TopicProgress(progressFile', k) # None
                      /\ TopicProgress(progressFile', k).completed
                      /\ TopicProgress(progressFile', k).quiz_score = result.score
                 ELSE progressFile' = progressFile ]_vars

\* the topic was completed with score 100 and a later submission has failed
C17_Witness ==
    /\ calls[1].pc = "done"
    /\ ~ Raised(calls[1].result)
    /\ ~ calls[1].result.passed
    /\ TopicProgress(progressFile, GradeKey) # None
    /\ TopicProgress(progressFile, GradeKey).completed
    /\ TopicProgress(progressFile, GradeKey).quiz_score = 100

(***************************************************************************)
(* storage.py delete_curriculum, and SpecUnknown: direct lesson and quiz   *)
(* requests for a topic of a curriculum that may be deleted meanwhile.     *)
(***************************************************************************)
\* a delete that leaves progress.json alone
KeepProgress(file, id) == file

\* progress.json without the entry of curriculum id
WithoutProgress(file, id) == [ i \in DOMAIN file \ { id } |-> file[i] ]

\* storage.delete_curriculum(curriculum_id): True and everything of the curriculum
\* removed when the id is stored, False and nothing written otherwise
delete_curriculum(id) ==
    IF id \in curriculums
    THEN /\ curriculums' = curriculums \ { id }
         /\ progressFile' = WithoutProgress(progressFile, id)
         /\ lessonFiles' = RmTree(lessonFiles, id, None)
         /\ quizFiles' = RmTree(quizFiles, id, EmptyDir)
         /\ assessFiles' = RmTree(assessFiles, id, EmptyDir)
         /\ chatFiles' = RmTree(chatFiles, id, << >>)
         /\ savedVersions' = RmTree(savedVersions, id, << >>)
         /\ ret' = [ call |-> "delete_curriculum", id |-> id, value |-> TRUE,
                     had_content |-> CurriculumDirExists(id),
                     had_progress |-> id \in DOMAIN progressFile ]
         /\ UNCHANGED << clock, calls, preps, sem, fixedAnswers, executor >>
    ELSE /\ ret' = [ call |-> "delete_curriculum", id |-> id, value |-> FALSE,
                     had_content |-> CurriculumDirExists(id),
                     had_progress |-> id \in DOMAIN progressFile ]
         /\ UNCHANGED << curriculums, lessonFiles, quizFiles, assessFiles, chatFiles,
                         progressFile, clock, calls, preps, sem, savedVersions,
                         fixedAnswers, executor >>

NextUnknown ==
    \/ \E c \in CallIds : LessonStart(c, GenKey)
    \/ \E c \in CallIds, response \in LessonResponses : LessonResume(c, response)
    \/ \E c \in CallIds, force_new \in BOOLEAN :
          /\ force_new => get_quiz_count(GenKey) < MaxGenQuizzes
          /\ QuizStart(c, GenKey, force_new)
    \/ \E c \in CallIds, response \in QuizResponses : QuizResume(c, response)
    \/ delete_curriculum(GenKey[1])

SpecUnknown == InitIdle /\ [][NextUnknown]_vars

\* call c takes a generate_lesson or generate_quiz request in this step
Requested(c) ==
    /\ CallFree(c)
    /\ calls'[c] # calls[c]
    /\ calls'[c].op \in { "lesson", "quiz" }

\* the read that the request of record rec starts with finds nothing
NothingCached(rec) ==
    IF rec.op = "lesson" THEN get_cached_lesson(rec.key) = None
    ELSE get_cached_quiz(rec.key, -1) = None

\* C18: for a curriculum id unknown to storage and a topic key with no cached
\* artifact, generate_lesson and generate_quiz (forced or not) fail with "Curriculum
\* not found", without a model call and without a write to the content store.
C18_UnknownCurriculumFails ==
    [][ \A c \in CallIds :
          ( /\ Requested(c)
            /\ calls'[c].key[1] \notin curriculums
            /\ NothingCached(calls'[c]) )
          => /\ calls'[c].pc = "done"
             /\ calls'[c].result = Raise(MSG_NOT_FOUND)
             /\ ~ calls'[c].invoked
             /\ UNCHANGED storeVars ]_vars

\* a generate_lesson and a forced generate_quiz have both been refused for the
\* deleted curriculum, whose topic has nothing cached
C18_Witness ==
    /\ GenKey[1] \notin curriculums
    /\ get_cached_lesson(GenKey) = None
    /\ get_quiz_count(GenKey) = 0
    /\ calls[1].pc = "done" /\ calls[1].op = "lesson"
    /\ calls[1].result = Raise(MSG_NOT_FOUND)
    /\ calls[2].pc = "done" /\ calls[2].op = "quiz" /\ calls[2].force_new
    /\ calls[2].result = Raise(MSG_NOT_FOUND)

(***************************************************************************)
(* SpecFallback: submissions against one stored quiz, the model replying   *)
(* with any of AssessResponses or with a JSON object that has feedback and *)
(* a "fallback_mode" key of its own; lines 298-303 of learning.py copy     *)
(* every key of the reply into the assessment.                             *)
(***************************************************************************)
PayloadMarked == [ dict |-> TRUE,
                   keys |-> { "fallback_mode", "question_feedback", "summary" },
                   fallback_mode |-> "true",
                   question_feedback |-> << [ model_text |-> TRUE ] >>,
                   encouragement |-> "model" ]

MarkedResponses == AssessResponses \cup { LlmText("json", PayloadMarked) }

NextFallback ==
    \/ \E answers \in ProgressAnswers, use_ai_grading \in BOOLEAN :
          SubmitStart(1, GradeKey, answers, use_ai_grading)
    \/ \E response \in MarkedResponses : SubmitResume(1, response)

SpecFallback == InitProgress /\ [][NextFallback]_vars

\* C19: an assessment returned and persisted by a submission has fallback_mode = true
\* exactly when the AI step did not succeed (use_ai_grading false, or the model call
\* or the parse failed), and never when the AI step succeeded.
C19_FallbackExactlyWithoutAI ==
    \A c \in Graded :
        ~ Raised(calls[c].result)
        => /\ Persisted(calls[c].key, calls[c].result)
           /\ (calls[c].result.fallback_mode = "true") <=> (calls[c].path # "ai_ok")

(***************************************************************************)
(* generate_quiz and the stored versions, under SpecGenSeq.                *)
(***************************************************************************)
\* call c returns a quiz from its model call in this step
QuizGenerated(c) ==
    /\ calls[c].pc = "await_llm"
    /\ calls[c].op = "quiz"
    /\ calls'[c].pc = "done"
    /\ ~ Raised(calls'[c].result)

\* some stored version of topic key k can be read
ReadableVersion(k) ==
    \E v \in 0 .. get_quiz_count(k) - 1 : get_cached_quiz(k, v) # None

\* the forced call c has appended version N and kept versions 0 .. N-1
ForcedAppends(c) ==
    LET k == calls[c].key
        N == get_quiz_count(k)
    IN  /\ calls'[c].invoked
        /\ calls'[c].result.version = N
        /\ get_quiz_count(k)' = N + 1
        /\ \A v \in 0 .. N - 1 :
              /\ QuizFileName(v) \in DOMAIN quizFiles'[k]
              /\ quizFiles'[k][QuizFileName(v)] = quizFiles[k][QuizFileName(v)]

\* C20: with N >= 0 stored versions and no concurrent writer, a successful
\* generate_quiz(force_new = TRUE) invokes the model, returns version N, raises
\* get_quiz_count to N + 1 and leaves versions 0 .. N-1 unchanged; with
\* force_new = FALSE a new version is created only when no readable version exists.
C20_NewVersionRule ==
    [][ \A c \in CallIds :
          QuizGenerated(c)
          => IF calls[c].force_new THEN ForcedAppends(c)
             ELSE ~ ReadableVersion(calls[c].key) ]_vars

\* call c returns a (quiz, version) pair in this step, cached or freshly generated
QuizReturned(c) ==
    /\ calls'[c] # calls[c]
    /\ calls'[c].pc = "done"
    /\ calls'[c].op = "quiz"
    /\ ~ Raised(calls'[c].result)

\* C21: every pair (quiz, version) that generate_quiz returns, from the cache or
\* after a generation, is consistent with the store: right after the call
\* get_cached_quiz(key, version) returns that same quiz.
C21_ReturnedPairStored ==
    [][ \A c \in CallIds :
          QuizReturned(c)
          => CachedQuiz(quizFiles'[calls'[c].key], calls'[c].result.version)
                = calls'[c].result.quiz ]_vars

(***************************************************************************)
(* SpecTasks: batch preparation started on every store state (lessons      *)
(* absent, stored or unreadable; quiz directories empty, with one version  *)
(* or with one unreadable version), up to the enumeration of its tasks.    *)
(***************************************************************************)
InitTasks ==
    /\ curriculums = CurriculumIds
    /\ lessonFiles \in [ Keys -> { None, StoredLesson, Corrupt } ]
    /\ quizFiles \in [ Keys -> Damaged(StoredQuizDir(1)) \cup { EmptyDir } ]
    /\ assessFiles = [ k \in Keys |-> EmptyDir ]
    /\ progressFile = << >>
    /\ clock = 0
    /\ calls = [ c \in CallIds |-> IdleCall ]
    /\ preps = [ p \in PrepIds |-> IdlePrep ]
    /\ sem = SEMAPHORE_PERMITS
    /\ savedVersions = [ k \in Keys |-> << >> ]
    /\ fixedAnswers = << >>
    /\ chatFiles = [ k \in Keys |-> << >> ]
    /\ ret = None
    /\ executor = IdleExecutor

NextTasks == \E id \in CurriculumIds : PrepStart(1, id)

SpecTasks == InitTasks /\ [][NextTasks]_vars

\* the artifact of the given type is missing for topic key k
Missing(type, k) ==
    IF type = "lesson" THEN get_cached_lesson(k) = None ELSE get_quiz_count(k) = 0

\* the positions of the tasks of the given type and topic key
TasksFor(tasks, type, k) ==
    { i \in 1 .. Len(tasks) : /\ tasks[i].type = type
                              /\ tasks[i].cluster_index = k[2]
                              /\ tasks[i].topic_index = k[3] }

\* task a comes before task b in curriculum order, the lesson of a topic first
TaskBefore(a, b) ==
    \/ a.cluster_index < b.cluster_index
    \/ a.cluster_index = b.cluster_index /\ a.topic_index < b.topic_index
    \/ /\ a.cluster_index = b.cluster_index /\ a.topic_index = b.topic_index
       /\ a.type = "lesson" /\ b.type = "quiz"

\* C22: batch preparation enumerates one lesson task per topic without a readable
\* cached lesson and one quiz task per topic with zero quiz versions, no task for
\* an artifact that exists, in curriculum (cluster, topic) order with the lesson
\* task of a topic before its quiz task; total is the number of missing artifacts.
C22_TaskEnumeration ==
    \A p \in PrepIds :
        preps[p].pc # "idle"
        => LET tasks == preps[p].tasks
               keys == TopicKeys(preps[p].id)
           IN  /\ \A k \in keys, type \in { "lesson", "quiz" } :
                     Cardinality(TasksFor(tasks, type, k))
                        = IF Missing(type, k) THEN 1 ELSE 0
               /\ \A i, j \in 1 .. Len(tasks) : i < j => TaskBefore(tasks[i], tasks[j])
               /\ preps[p].total = Len(tasks)
               /\ preps[p].total
                     = Cardinality({ << type, k >> \in { "lesson", "quiz" } \X keys :
                                        Missing(type, k) })

\* a curriculum where one topic misses both artifacts, one has an unreadable
\* lesson next to a stored quiz, and one has everything
C22_Witness ==
    /\ preps[1].pc # "idle"
    /\ preps[1].id = "c1"
    /\ preps[1].total = 3
    /\ preps[1].tasks[1].type = "lesson" /\ preps[1].tasks[2].type = "quiz"
    /\ preps[1].tasks[3].type = "lesson"
    /\ preps[1].tasks[3].cluster_index = 1
    /\ lessonFiles[<< "c1", 1, 0 >>] = Corrupt
    /\ get_quiz_count(<< "c1", 1, 0 >>) = 1
    /\ lessonFiles[<< "c1", 0, 1 >>] = StoredLesson

(***************************************************************************)
(* SpecChat: the chat transcripts of two topic keys, written by            *)
(* append_chat_message and save_chat_history in any order.                 *)
(***************************************************************************)
MaxChat == 3

ChatMessages == { [ role |-> "user", content |-> "Question" ],
                  [ role |-> "assistant", content |-> "Answer" ] }

\* save_chat_history(curriculum_id, cluster_index, topic_index, messages)
save_chat_history(k, messages) ==
    /\ chatFiles' = [chatFiles EXCEPT ![k] = messages]
    /\ ret' = [ call |-> "save_chat_history", value |-> None ]
    /\ UNCHANGED << curriculums, lessonFiles, quizFiles, assessFiles, progressFile,
                    clock, calls, preps, sem, savedVersions, fixedAnswers, executor >>

NextChat ==
    \/ \E k \in StoreKeys, message \in ChatMessages :
          /\ Len(chatFiles[k]) < MaxChat
          /\ append_chat_message(k, message)
    \/ \E k \in StoreKeys, messages \in SeqsUpTo(ChatMessages, MaxChat - 1) :
          save_chat_history(k, messages)

SpecChat == InitIdle /\ [][NextChat]_vars

\* C23: the chat history of every topic key is empty before any message is written;
\* each append_chat_message returns the full updated history with the new message
\* last and get_chat_history then returns the messages in append order;
\* save_chat_history replaces the whole transcript with the given list.
C23_ChatTranscript ==
    [][ /\ ret = None => \A k \in Keys : get_chat_history(k) = << >>
        /\ \A k \in StoreKeys, message \in ChatMessages :
              append_chat_message(k, message)
              => LET old == get_chat_history(k)
                     new == get_chat_history(k)'
                 IN  /\ ret'.value.history = new
                     /\ Len(new) = Len(old) + 1
                     /\ new[Len(new)] = message
                     /\ \A i \in 1 .. Len(old) : new[i] = old[i]
                     /\ \A other \in Keys \ { k } :
                           get_chat_history(other)' = get_chat_history(other)
        /\ \A k \in StoreKeys, messages \in SeqsUpTo(ChatMessages, MaxChat - 1) :
              save_chat_history(k, messages)
              => /\ get_chat_history(k)' = messages
                 /\ \A other \in Keys \ { k } :
                       get_chat_history(other)' = get_chat_history(other) ]_vars

\* a transcript of three messages whose last write was an append, next to a topic
\* key that still has none
C23_Witness ==
    /\ "call" \in DOMAIN ret
    /\ ret.call = "append_chat_message"
    /\ get_chat_history(<< "c1", 0, 0 >>)
          = << [ role |-> "assistant", content |-> "Answer" ],
               [ role |-> "user", content |-> "Question" ],
               [ role |-> "assistant", content |-> "Answer" ] >>
    /\ get_chat_history(<< "c2", 0, 0 >>) = << >>

(***************************************************************************)
(* SpecDelete: two stored curricula with content and progress being        *)
(* written, and storage.delete_curriculum called with stored ids, with     *)
(* deleted ids and with an id that was never stored.                       *)
(***************************************************************************)
\* storage.update_topic_progress(id, ci, ti, completed=True, quiz_score=score)
update_topic_progress(k, quiz_score) ==
    /\ progressFile' = UpdateTopicProgress(progressFile, k, TRUE, quiz_score, clock)
    /\ ret' = [ call |-> "update_topic_progress", value |-> None ]
    /\ UNCHANGED << curriculums, lessonFiles, quizFiles, assessFiles, chatFiles,
                    clock, calls, preps, sem, savedVersions, fixedAnswers, executor >>

NextDelete ==
    \/ \E k \in StoreKeys :
          /\ StoreFileCount < MaxStoreFiles \/ lessonFiles[k] # None
          /\ save_lesson(k, LessonOne)
    \/ \E k \in StoreKeys :
          /\ StoreFileCount < MaxStoreFiles
          /\ save_quiz(k, SampleQuizA)
    \/ \E k \in StoreKeys :
          /\ StoreFileCount < MaxStoreFiles
          /\ save_assessment(k, 0, AssessmentOne)
    \/ \E k \in StoreKeys :
          /\ StoreFileCount < MaxStoreFiles
          /\ append_chat_message(k, [ role |-> "user", content |-> "hi" ])
    \/ \E k \in StoreKeys : /\ k[1] \in curriculums
                            /\ update_topic_progress(k, 100)
    \/ \E id \in ContentIds : delete_curriculum(id)

SpecDelete == InitIdle /\ [][NextDelete]_vars

\* the record, the progress and the content of curriculum id
CurriculumState(id) ==
    << id \in curriculums,
       IF id \in DOMAIN progressFile THEN progressFile[id] ELSE None,
       [ k \in { x \in Keys : x[1] = id } |->
            << lessonFiles[k], quizFiles[k], assessFiles[k], chatFiles[k] >> ] >>

\* C24: storage.delete_curriculum(id) for a stored id removes the curriculum record,
\* its progress record and all its cached content and returns true, leaving the
\* record, progress and content of every other curriculum unchanged; for an unknown
\* id it returns false and changes nothing.
C24_DeleteCurriculum ==
    [][ \A id \in ContentIds :
          delete_curriculum(id)
          => IF id \in curriculums
             THEN /\ ret'.value = TRUE
                  /\ id \notin curriculums'
                  /\ id \notin DOMAIN progressFile'
                  /\ NoContent(id)'
                  /\ \A other \in CurriculumIds \ { id } :
                        CurriculumState(other)' = CurriculumState(other)
             ELSE /\ ret'.value = FALSE
                  /\ UNCHANGED << curriculums, progressFile, storeVars >> ]_vars

\* curriculum c1 was deleted with its content and progress while c2 keeps a lesson
\* and a progress record
C24_Witness ==
    /\ "call" \in DOMAIN ret
    /\ ret.call = "delete_curriculum"
    /\ ret.id = "c1"
    /\ ret.value = TRUE
    /\ ret.had_content /\ ret.had_progress
    /\ curriculums = { "c2" }
    /\ "c2" \in DOMAIN progressFile
    /\ lessonFiles[<< "c2", 0, 0 >>] = LessonOne
    /\ NoContent("c1")

(***************************************************************************)
(* SpecRace: two generate_quiz requests for the same topic key that both   *)
(* arrive before either model call has returned; the model calls then      *)
(* return in either order.  The store starts as in SpecGenSeq.             *)
(***************************************************************************)
NextRace ==
    \/ \E c \in CallIds, force_new \in BOOLEAN :
          /\ \A d \in CallIds : calls[d].pc # "done"
          /\ calls[c].pc = "idle"
          /\ QuizStart(c, GenKey, force_new)
    \/ \E c \in CallIds, response \in QuizResponses : QuizResume(c, response)

SpecRace == InitGenSeq /\ [][NextRace]_vars

\* both calls went to the model and each has stored a quiz
BothGenerated ==
    \A c \in CallIds : /\ calls[c].pc = "done"
                       /\ calls[c].op = "quiz"
                       /\ calls[c].invoked
                       /\ ~ Raised(calls[c].result)

\* C25 as stated: two concurrent generate_quiz calls for the same topic key are
\* assigned the same version number, one stored quiz overwriting the other.
C25_ConcurrentCallsShareVersion ==
    BothGenerated => calls[1].result.version = calls[2].result.version

\* C25 as the code has it: save_quiz reads the count and writes the file in one
\* step of the event loop, so two concurrent generate_quiz calls for the same topic
\* key are assigned different version numbers and both quizzes stay stored.
C25_ConcurrentVersionsDistinct ==
    /\ \A i, j \in 1 .. Len(savedVersions[GenKey]) :
          i # j => savedVersions[GenKey][i] # savedVersions[GenKey][j]
    /\ BothGenerated
       => /\ calls[1].result.version # calls[2].result.version
          /\ \A c \in CallIds :
                get_cached_quiz(GenKey, calls[c].result.version) = calls[c].result.quiz

\* both concurrent calls have stored quizzes of different content
C25_Witness ==
    /\ BothGenerated
    /\ calls[1].force_new /\ calls[2].force_new
    /\ calls[1].result.quiz # calls[2].result.quiz
    /\ get_quiz_count(GenKey) = 2

(***************************************************************************)
(* SpecMixed: for the one topic of curriculum c2, direct quiz requests     *)
(* (slot 1), a quiz submission (slot 2) and a batch preparation (prep 2),  *)
(* all interleaved.                                                        *)
(***************************************************************************)
MixedKey == << "c2", 0, 0 >>

NextMixed ==
    \/ \E force_new \in BOOLEAN :
          /\ force_new => get_quiz_count(MixedKey) < MaxGenQuizzes
          /\ QuizStart(1, MixedKey, force_new)
    \/ \E response \in QuizResponses : QuizResume(1, response)
    \/ \E use_ai_grading \in BOOLEAN :
          /\ calls[2].pc = "idle"
          /\ SubmitStart(2, MixedKey, << 1, 1 >>, use_ai_grading)
    \/ \E response \in AssessResponses : SubmitResume(2, response)
    \/ PrepStart(2, MixedKey[1])
    \/ PrepBatchStart(2)
    \/ \E i \in TaskIds(2) : TaskStart(2, i)
    \/ \E i \in TaskIds(2), response \in PrepLessonResponses :
          TaskLessonResume(2, i, response)
    \/ \E i \in TaskIds(2), response \in PrepQuizResponses :
          TaskQuizResume(2, i, response)
    \/ PrepBatchComplete(2)
    \/ PrepComplete(2)

SpecMixed == InitIdle /\ [][NextMixed]_vars

\* C26: quiz versions are immutable: once version v of a topic key is stored,
\* get_cached_quiz(key, v) returns the same content in every later state, under any
\* sequence of generate_quiz calls, batch preparation and quiz submissions.
C26_QuizVersionsImmutable ==
    [][ \A k \in Keys : \A v \in 0 .. MaxGenQuizzes + 1 :
          get_cached_quiz(k, v) # None
          => get_cached_quiz(k, v)' = get_cached_quiz(k, v) ]_vars

\* two versions of different content are stored, the second one written after a
\* submission and a batch preparation had finished
C26_Witness ==
    /\ get_quiz_count(MixedKey) >= 2
    /\ get_cached_quiz(MixedKey, 0) # None
    /\ get_cached_quiz(MixedKey, 1) # None
    /\ get_cached_quiz(MixedKey, 0) # get_cached_quiz(MixedKey, 1)
    /\ calls[1].pc = "done" /\ calls[1].op = "quiz" /\ calls[1].invoked
    /\ ~ Raised(calls[1].result) /\ calls[1].result.version = 1
    /\ calls[2].pc = "done" /\ ~ Raised(calls[2].result)
    /\ calls[2].quiz_version = 0
    /\ preps[2].pc = "done"

\* C27: a lesson is created once and is immutable thereafter: after a lesson has
\* been stored for a topic key its content never changes in a later state, also
\* when several generate_lesson calls for the same key are in flight concurrently.
C27_LessonImmutable ==
    [][ \A k \in Keys :
          get_cached_lesson(k) # None
          => get_cached_lesson(k)' = get_cached_lesson(k) ]_vars

(***************************************************************************)
(* SpecSubmitStored: one quiz submission against a store that holds 0, 1,  *)
(* 2, 10 or 11 quiz versions (the stores of SpecGenSeq).                   *)
(***************************************************************************)
NextSubmitStored ==
    \/ \E answers \in ProgressAnswers, use_ai_grading \in BOOLEAN :
          /\ calls[1].pc = "idle"
          /\ SubmitStart(1, GenKey, answers, use_ai_grading)
    \/ \E response \in AssessResponses : SubmitResume(1, response)

SpecSubmitStored == InitGenSeq /\ [][NextSubmitStored]_vars

\* C28: every assessment is tagged with the quiz version it grades: the quiz whose
\* correct indices the answers were scored against is the artifact stored under the
\* quiz_version recorded in the assessment, for every number of stored versions.
C28_GradedQuizIsTaggedVersion ==
    \A c \in Graded :
        ~ Raised(calls[c].result)
        => get_cached_quiz(calls[c].key, calls[c].result.quiz_version) = calls[c].quiz

(***************************************************************************)
(* SpecSubmitDelete: quiz submissions against one stored quiz of           *)
(* curriculum c1 while that curriculum may be deleted.                     *)
(***************************************************************************)
NextSubmitDelete ==
    \/ \E answers \in ProgressAnswers, use_ai_grading \in BOOLEAN :
          SubmitStart(1, GradeKey, answers, use_ai_grading)
    \/ \E response \in AssessResponses : SubmitResume(1, response)
    \/ delete_curriculum(GradeKey[1])

SpecSubmitDelete == InitProgress /\ [][NextSubmitDelete]_vars

\* C29: in every reachable state every stored assessment of a topic key carries a
\* quiz_version v of an existing quiz version of that key (0 <= v < get_quiz_count),
\* and get_assessments returns a quiz_version for every record.
C29_AssessmentVersionExists ==
    \A k \in Keys :
        /\ \A name \in DOMAIN assessFiles[k] :
              assessFiles[k][name] # Corrupt
              => /\ 0 <= assessFiles[k][name].quiz_version
                 /\ assessFiles[k][name].quiz_version < get_quiz_count(k)
        /\ \A i \in 1 .. Len(get_assessments(k)) :
              "quiz_version" \in DOMAIN get_assessments(k)[i]

(***************************************************************************)
(* main.py: what the lesson and quiz endpoints make of the outcome of      *)
(* generate_lesson / generate_quiz.                                        *)
(***************************************************************************)
MSG_JSON_DECODE == "Expecting value"

\* the exceptions that are ValueError or a subclass of it: the two raised with
\* ValueError(...) in learning.py, and json.JSONDecodeError
IsValueError(msg) == msg \in { MSG_NOT_FOUND, MSG_PARSE, MSG_JSON_DECODE }

\* lines 348-359, 367-382, 387-402: the reply, or the HTTPException
EndpointReply(op, result) ==
    IF ~ Raised(result) THEN [ status |-> 200, detail |-> "" ]
    ELSE IF IsValueError(result.raised) THEN [ status |-> 404, detail |-> result.raised ]
    ELSE [ status |-> 500, detail |-> "Failed to generate " \o op ]

\* the model's text could not be parsed, or the parsed value lacks a required field
ParseFailure(result) ==
    /\ Raised(result)
    /\ result.raised \in { MSG_PARSE, MSG_JSON_DECODE, MSG_KEY, MSG_TYPE }

\* C30: a model response that cannot be parsed or that lacks a required field makes
\* generate_lesson / generate_quiz fail with an error that the endpoints surface as
\* a server-side failure, distinguishable from the not-found outcome of an unknown
\* curriculum id.
C30_ParseFailureIsServerError ==
    \A c \in CallIds :
        ( /\ calls[c].pc = "done"
          /\ calls[c].op \in { "lesson", "quiz" }
          /\ ParseFailure(calls[c].result) )
        => /\ EndpointReply(calls[c].op, calls[c].result).status = 500
           /\ EndpointReply(calls[c].op, calls[c].result).status
                 # EndpointReply(calls[c].op, Raise(MSG_NOT_FOUND)).status

(***************************************************************************)
(* SpecPool: a batch preparation of curriculum c1 with nothing cached, and *)
(* a direct lesson request and a direct quiz request for the topic of c2   *)
(* arriving at any time.                                                   *)
(***************************************************************************)
NextPool ==
    \/ PrepStart(1, "c1")
    \/ PrepBatchStart(1)
    \/ \E i \in TaskIds(1) : TaskStart(1, i)
    \/ \E i \in TaskIds(1), response \in PrepLessonResponses :
          TaskLessonResume(1, i, response)
    \/ \E i \in TaskIds(1), response \in PrepQuizResponses :
          TaskQuizResume(1, i, response)
    \/ PrepBatchComplete(1)
    \/ PrepComplete(1)
    \/ calls[1].pc = "idle" /\ LessonStart(1, MixedKey)
    \/ \E response \in PrepLessonResponses : LessonResume(1, response)
    \/ calls[2].pc = "idle" /\ QuizStart(2, MixedKey, FALSE)
    \/ \E response \in PrepQuizResponses : QuizResume(2, response)

SpecPool == InitIdle /\ [][NextPool]_vars

\* the requests and tasks suspended in _call_llm
Suspended ==
    { CallInv(c) : c \in { d \in CallIds : calls[d].pc = "await_llm" } }
    \cup { TaskInv(x[1], x[2]) : x \in InModelCall }

\* C31 as stated: no limiter applies to direct requests, so with a batch preparation
\* running every direct request in its model call executes at once with the batch
\* tasks, more than 4 invocations at the same time.
C31_DirectRequestsUnlimited ==
    \A c \in CallIds : calls[c].pc = "await_llm" => Executing(executor, CallInv(c))

\* C31 as the code has it: the semaphore does not cover direct requests, so more
\* than 4 requests can be suspended in _call_llm, but every model call runs in the
\* pool of 4 worker threads: at most 4 execute at the same time, the others wait.
C31_AtMostFourExecuting ==
    /\ Cardinality(executor.running) <= MAX_WORKERS
    /\ executor.running \subseteq Suspended
    /\ \A x \in Suspended :
          Executing(executor, x) \/ \E i \in 1 .. Len(executor.waiting) : executor.waiting[i] = x
    /\ executor.waiting # << >> => Cardinality(executor.running) = MAX_WORKERS

\* four batch tasks execute and both direct requests wait for a worker
C31_Witness ==
    /\ Cardinality(Suspended) = 6
    /\ Cardinality(InModelCall) = SEMAPHORE_PERMITS
    /\ Cardinality(executor.running) = MAX_WORKERS
    /\ Len(executor.waiting) = 2

\* the quiz satisfies the schema of the spec: at least one question, 4 options
\* each, a correct_index among them
WellFormedQuiz(quiz) ==
    /\ Len(quiz.questions) >= 1
    /\ \A i \in 1 .. Len(quiz.questions) :
          /\ quiz.questions[i].options = 4
          /\ quiz.questions[i].correct_index \in 0 .. 3

\* C32: generate_quiz validates model output before committing it: every quiz it
\* persists has at least one question, each with exactly 4 options and a
\* correct_index that indexes one of them, and passing_score 80 whatever the model
\* returned.
C32_PersistedQuizValid ==
    \A k \in Keys : \A name \in DOMAIN quizFiles[k] :
        quizFiles[k][name] # Corrupt
        => /\ WellFormedQuiz(quizFiles[k][name])
           /\ quizFiles[k][name].passing_score = PASSING_SCORE

(***************************************************************************)
(* SpecPrepFair: SpecPrep with the scheduling of the event loop: a step of *)
(* the stream generator or of a task that can be taken is taken, and every *)
(* model call returns or raises.                                           *)
(***************************************************************************)
PrepFairness ==
    /\ WF_vars(PrepBatchStart(1))
    /\ WF_vars(\E i \in TaskIds(1) : TaskStart(1, i))
    /\ WF_vars(\E i \in TaskIds(1), response \in PrepLessonResponses :
                  TaskLessonResume(1, i, response))
    /\ WF_vars(\E i \in TaskIds(1), response \in PrepQuizResponses :
                  TaskQuizResume(1, i, response))
    /\ WF_vars(PrepBatchComplete(1))
    /\ WF_vars(PrepComplete(1))

SpecPrepFair == InitPrep /\ [][NextPrep]_vars /\ PrepFairness

\* the preparation has ended: every enumerated task was run and the stream has
\* closed with its final event
PrepTerminated(prep) ==
    /\ prep.pc = "done"
    /\ \A i \in 1 .. prep.total : prep.tcalls[i].pc = "done"
    /\ prep.completed = prep.total
    /\ LastEvent(prep).type = "complete"

\* C33: every started batch preparation terminates: all batches run, every
\* enumerated task is attempted exactly once (a finished task is never run again)
\* and the complete event is eventually emitted, whichever tasks fail.
C33_PrepTerminates ==
    /\ [][ preps[1].pc # "idle"
           => \A i \in 1 .. preps[1].total :
                 preps[1].tcalls[i].pc = "done" => preps'[1].tcalls[i] = preps[1].tcalls[i] ]_vars
    /\ (preps[1].pc # "idle") ~> PrepTerminated(preps[1])

\* a preparation of two batches has ended with failed tasks in both
C33_Witness ==
    /\ preps[1].pc # "idle"
    /\ PrepTerminated(preps[1])
    /\ preps[1].total > BATCH_SIZE
    /\ \E i \in FailedTasks(preps[1]) : i <= BATCH_SIZE
    /\ \E i \in FailedTasks(preps[1]) : i > BATCH_SIZE

(***************************************************************************)
(* SpecScored: submissions against one stored quiz, the model replying     *)
(* with any of AssessResponses or with a JSON object that carries the      *)
(* scoring keys itself, with values no quiz of the model yields.           *)
(***************************************************************************)
PayloadScored(passed) ==
    [ dict |-> TRUE, keys |-> { "question_feedback", "summary" },
      fallback_mode |-> "absent",
      question_feedback |-> << [ model_text |-> TRUE ] >>,
      encouragement |-> "model",
      score |-> 99, correct_count |-> 9,
      total_questions |-> 9, passed |-> passed,
      quiz_version |-> 9 ]

ScoredResponses ==
    AssessResponses \cup { LlmText("json", PayloadScored(passed)) : passed \in BOOLEAN }

NextScored ==
    \/ \E answers \in ProgressAnswers, use_ai_grading \in BOOLEAN :
          SubmitStart(1, GradeKey, answers, use_ai_grading)
    \/ \E response \in ScoredResponses : SubmitResume(1, response)

SpecScored == InitProgress /\ [][NextScored]_vars

ScoringOf(assessment) ==
    [ score |-> assessment.score,
      correct_count |-> assessment.correct_count,
      total_questions |-> assessment.total_questions,
      passed |-> assessment.passed,
      quiz_version |-> assessment.quiz_version ]

\* the files of dir2 that dir1 does not hold with the same content
Written(dir1, dir2) ==
    { name \in DOMAIN dir2 : name \notin DOMAIN dir1 \/ dir1[name] # dir2[name] }

\* C34: when a submission ends on the AI-success path, the returned assessment is
\* stored, and it and every assessment file the step writes carry the score, correct_count,
\* total_questions, passed and quiz_version that _create_fallback_assessment computes
\* for the same quiz, version and answers, whatever the model's JSON holds.
C34_ScoringNotFromModel ==
    [][ \A c \in CallIds :
           ( /\ calls[c].pc = "await_llm"
             /\ calls[c].op = "submit"
             /\ calls'[c].pc = "done"
             /\ calls'[c].path = "ai_ok" )
           => LET rec == calls[c]
                  fallback == _create_fallback_assessment(rec.quiz, rec.quiz_version,
                                                          rec.answers, MSG_NOT_REQUESTED)
              IN  /\ ~ Raised(fallback)
                  /\ ScoringOf(calls'[c].result) = ScoringOf(fallback)
                  /\ \E name \in DOMAIN assessFiles'[rec.key] :
                        assessFiles'[rec.key][name] = calls'[c].result
                  /\ \A name \in Written(assessFiles[rec.key], assessFiles'[rec.key]) :
                        ScoringOf(assessFiles'[rec.key][name]) = ScoringOf(fallback)
      ]_vars

\* a submission has ended on the AI-success path with a computed score of 50, not
\* passed, and is stored so, although the model's JSON said score 99 and passed
C34_Witness ==
    /\ calls[1].pc = "done"
    /\ calls[1].op = "submit"
    /\ calls[1].path = "ai_ok"
    /\ calls[1].result.encouragement = "model"
    /\ calls[1].result.score = 50
    /\ ~ calls[1].result.passed
    /\ Persisted(GradeKey, calls[1].result)
    /\ fixedAnswers = << >>

\* call c returns an assessment in this step
AssessmentReturned(c) ==
    /\ calls[c].pc # "done"
    /\ calls'[c].pc = "done"
    /\ calls'[c].op = "submit"
    /\ ~ Raised(calls'[c].result)

\* C35: every quiz submission that returns an assessment adds exactly one record to
\* what get_assessments returns for its topic key, on every path.
C35_OneRecordPerSubmission ==
    [][ \A c \in CallIds :
           AssessmentReturned(c)
           => Len(AssessmentsOf(assessFiles'[calls'[c].key]))
                 = Len(get_assessments(calls'[c].key)) + 1 ]_vars

(***************************************************************************)
(* SpecUnforced: direct quiz requests for one topic, all with              *)
(* force_new = false, from two clients at once; the store starts empty, so *)
(* no artifact is corrupt.                                                 *)
(***************************************************************************)
NextUnforced ==
    \/ \E c \in CallIds :
          /\ get_quiz_count(GenKey) < MaxGenQuizzes
          /\ QuizStart(c, GenKey, FALSE)
    \/ \E c \in CallIds, response \in QuizResponses : QuizResume(c, response)

SpecUnforced == InitIdle /\ [][NextUnforced]_vars

\* the calls that have returned a quiz from a model call of their own
SucceededInvocations ==
    { c \in CallIds : /\ calls[c].pc = "done"
                      /\ calls[c].op = "quiz"
                      /\ calls[c].invoked
                      /\ ~ Raised(calls[c].result) }

\* C36: with generate_quiz only ever called with force_new = false for a topic key,
\* the key never holds more than one quiz version.
C36_SingleVersionUnforced ==
    get_quiz_count(GenKey) <= 1

\* C37: once delete_curriculum(id) has returned true (the id has left the curriculum
\* store, which holds it in every initial state), no lesson, quiz, assessment or
\* progress record exists under that id, also when a submission was suspended in
\* its model call at the moment of deletion.
C37_DeletedStaysEmpty ==
    \A id \in CurriculumIds :
        id \notin curriculums => /\ NoContent(id)
                                 /\ id \notin DOMAIN progressFile

(***************************************************************************)
(* learning.py chat_with_tutor, before and after its model call.           *)
(***************************************************************************)
UserMessage(message) == [ role |-> "user", content |-> message ]

\* the model's reply to api_messages, whose last entry is the user's message
AssistantMessage(message) == [ role |-> "assistant", content |-> << "reply to", message >> ]

\* a turn that stores the reply before the question
SaveTurnReplyFirst(history, message) ==
    AppendMessage(AppendMessage(history, AssistantMessage(message)), UserMessage(message))

\* lines 377-384: the two append_chat_message calls, with no await between them
SaveTurn(history, message) ==
    AppendMessage(AppendMessage(history, UserMessage(message)), AssistantMessage(message))

\* lines 324-375 up to the model call: the tutor turn arrives
TutorStart(c, k, message) ==
    /\ CallFree(c)
    /\ calls' = [calls EXCEPT ![c] =
          IF get_curriculum(k[1]) = None
          THEN [ pc |-> "done", op |-> "tutor", key |-> k, message |-> message,
                 history |-> << >>, result |-> Raise(MSG_NOT_FOUND) ]
          ELSE [ pc |-> "await_llm", op |-> "tutor", key |-> k, message |-> message,
                 history |-> get_chat_history(k), result |-> None ]]
    /\ UNCHANGED << curriculums, lessonFiles, quizFiles, assessFiles, progressFile,
                    clock, preps, sem, savedVersions, fixedAnswers,
                    chatFiles, ret >>
    /\ executor' = IF calls'[c].pc = "await_llm"
                   THEN ExecutorSubmit(executor, CallInv(c)) ELSE executor

\* lines 375-387 from the model call on: the reply arrives, or the call raises
TutorResume(c, response) ==
    /\ calls[c].pc = "await_llm"
    /\ calls[c].op = "tutor"
    /\ LET k == calls[c].key
       IN  IF response.kind = "raise"
           THEN /\ calls' = [calls EXCEPT ![c] =
                      [ @ EXCEPT !.pc = "done", !.result = Raise(response.error) ]]
                /\ chatFiles' = chatFiles
           ELSE /\ chatFiles' = [chatFiles EXCEPT ![k] = SaveTurn(@, calls[c].message)]
                /\ calls' = [calls EXCEPT ![c] =
                      [ @ EXCEPT !.pc = "done",
                                 !.result = [ response |-> AssistantMessage(calls[c].message).content,
                                              history |-> chatFiles'[k] ] ]]
    /\ UNCHANGED << curriculums, lessonFiles, quizFiles, assessFiles, progressFile,
                    clock, preps, sem, savedVersions, fixedAnswers, ret >>
    /\ Executing(executor, CallInv(c))
    /\ executor' = ExecutorFinish(executor, CallInv(c))

TutorQuestions == { "why", "how" }
TutorResponses == { LlmRaise(MSG_API_ERROR), LlmText("prose", "reply") }

\* the tutor turns suspended in their model call
TutorInFlight == { c \in CallIds : calls[c].pc = "await_llm" /\ calls[c].op = "tutor" }

(***************************************************************************)
(* SpecTutor: tutor turns for one topic from two clients at once, and the  *)
(* deletion of the curriculum.                                             *)
(***************************************************************************)
NextTutor ==
    \/ \E c \in CallIds, message \in TutorQuestions :
          /\ Len(chatFiles[GenKey]) + 2 * Cardinality(TutorInFlight) + 2 <= 2 * MaxChat
          /\ TutorStart(c, GenKey, message)
    \/ \E c \in CallIds, response \in TutorResponses : TutorResume(c, response)
    \/ delete_curriculum(GenKey[1])

SpecTutor == InitIdle /\ [][NextTutor]_vars

\* history is a sequence of adjacent (user, assistant) pairs, each reply the reply to
\* the message before it
PairedTranscript(history) ==
    /\ Len(history) % 2 = 0
    /\ \A i \in 1 .. Len(history) :
          i % 2 = 1 => /\ history[i].role = "user"
                       /\ history[i + 1] = AssistantMessage(history[i].content)

\* C38: in every reachable state the transcript of a topic written through
\* chat_with_tutor is a sequence of adjacent (user, assistant) pairs, each user
\* message immediately followed by the reply to it, also with several turns in
\* flight; and a turn whose model call fails leaves the transcript unchanged.
C38_TranscriptPaired ==
    /\ [](\A k \in Keys : PairedTranscript(get_chat_history(k)))
    /\ [][ \A c \in CallIds :
              ( /\ calls[c].pc = "await_llm"
                /\ calls[c].op = "tutor"
                /\ calls'[c].pc = "done"
                /\ Raised(calls'[c].result) )
              => chatFiles' = chatFiles ]_vars

\* the turn "why" read the empty transcript and was stored after the pair of the
\* turn "how", so the two were in flight together; a later turn that read both pairs
\* has failed and the transcript still holds exactly the two pairs
C38_Witness ==
    /\ calls[1].pc = "done" /\ calls[1].op = "tutor"
    /\ calls[2].pc = "done" /\ calls[2].op = "tutor"
    /\ calls[2].message = "why"
    /\ calls[2].history = << >>
    /\ ~ Raised(calls[2].result)
    /\ Raised(calls[1].result)
    /\ calls[1].history = get_chat_history(GenKey)
    /\ get_chat_history(GenKey) =
          << UserMessage("how"), AssistantMessage("how"),
             UserMessage("why"), AssistantMessage("why") >>

(***************************************************************************)
(* main.py get_progress and start_learning, storage.py                     *)
(* init_learning_progress.                                                 *)
(***************************************************************************)
\* storage.get_learning_progress(id): the record, or None
get_learning_progress(id) ==
    IF id \in DOMAIN progressFile THEN progressFile[id] ELSE None

\* storage.init_learning_progress(id): progress.json after it
InitLearningProgress(file, id, t) ==
    IF id \in DOMAIN file THEN file ELSE (id :> NewProgress(id, t)) @@ file

\* GET /api/curriculums/{id}/progress
get_progress(id) ==
    /\ progressFile' = IF get_learning_progress(id) = None
                       THEN InitLearningProgress(progressFile, id, clock)
                       ELSE progressFile
    /\ ret' = [ call |-> "get_progress", id |-> id, status |-> 200,
                 value |-> progressFile'[id] ]
    /\ UNCHANGED << curriculums, lessonFiles, quizFiles, assessFiles, chatFiles,
                    clock, calls, preps, sem, savedVersions, fixedAnswers, executor >>

\* POST /api/curriculums/{id}/progress/start
start_learning(id) ==
    /\ IF get_curriculum(id) = None
       THEN /\ progressFile' = progressFile
            /\ ret' = [ call |-> "start_learning", id |-> id, status |-> 404,
                         value |-> None ]
       ELSE /\ progressFile' = InitLearningProgress(progressFile, id, clock)
            /\ ret' = [ call |-> "start_learning", id |-> id, status |-> 200,
                         value |-> progressFile'[id] ]
    /\ UNCHANGED << curriculums, lessonFiles, quizFiles, assessFiles, chatFiles,
                    clock, calls, preps, sem, savedVersions, fixedAnswers, executor >>

\* the ids a client may put in the path: the stored ones and one never stored
RequestIds == CurriculumIds \cup { "nonexistent" }

(***************************************************************************)
(* SpecProgressIds: progress reads, start-learning calls, deletions and    *)
(* one passing quiz submission.                                            *)
(***************************************************************************)
NextProgressIds ==
    \/ \E id \in RequestIds : get_progress(id)
    \/ \E id \in RequestIds : start_learning(id)
    \/ \E use_ai_grading \in BOOLEAN :
          /\ calls[1].pc = "idle"
          /\ SubmitStart(1, GradeKey, << 1, 1 >>, use_ai_grading)
    \/ \E response \in AssessResponses : SubmitResume(1, response)
    \/ \E id \in CurriculumIds : delete_curriculum(id)

SpecProgressIds == InitProgress /\ [][NextProgressIds]_vars

\* C39: in every reachable state a learning-progress record exists only for
\* curriculum ids present in the curriculum store.
C39_ProgressOnlyForStored ==
    DOMAIN progressFile \subseteq curriculums

(***************************************************************************)
(* main.py get_content_status                                              *)
(***************************************************************************)
\* a cache test that only looks whether the lesson file exists
LessonFileExists(k) == lessonFiles[k] # None

\* "if content_cache.get_cached_lesson(...)": a loaded Lesson is truthy, None is not
LessonCached(k) == get_cached_lesson(k) # None

\* "if content_cache.get_quiz_count(...) > 0"
QuizCached(k) == get_quiz_count(k) > 0

MissingEntry(k) == [ cluster_index |-> k[2], topic_index |-> k[3], topic_name |-> k ]

\* the report the endpoint builds for a stored curriculum
ContentStatus(id) ==
    LET order == InOrder(TopicKeys(id))
        total_topics == Len(order)
        lessons_cached == Cardinality({ i \in 1 .. Len(order) : LessonCached(order[i]) })
        quizzes_cached == Cardinality({ i \in 1 .. Len(order) : QuizCached(order[i]) })
    IN  [ total_topics |-> total_topics,
          lessons_cached |-> lessons_cached,
          quizzes_cached |-> quizzes_cached,
          missing_lessons |->
              Concat([ i \in 1 .. Len(order) |->
                         IF LessonCached(order[i]) THEN << >>
                         ELSE << MissingEntry(order[i]) >> ]),
          missing_quizzes |->
              Concat([ i \in 1 .. Len(order) |->
                         IF QuizCached(order[i]) THEN << >>
                         ELSE << MissingEntry(order[i]) >> ]),
          ready |-> lessons_cached = total_topics /\ quizzes_cached = total_topics ]

\* GET /api/curriculums/{id}/content-status
get_content_status(id) ==
    /\ ret' = IF get_curriculum(id) = None
              THEN [ call |-> "get_content_status", id |-> id, status |-> 404,
                     value |-> None ]
              ELSE [ call |-> "get_content_status", id |-> id, status |-> 200,
                     value |-> ContentStatus(id) ]
    /\ UNCHANGED << curriculums, lessonFiles, quizFiles, assessFiles, progressFile,
                    chatFiles, clock, calls, preps, sem, savedVersions, fixedAnswers,
                    executor >>

(***************************************************************************)
(* SpecStatus: one batch preparation of c1 from any store state (files     *)
(* missing, stored or unreadable), the status report at any moment, and a  *)
(* second preparation once the first has ended.  Nothing else writes.      *)
(***************************************************************************)
InitStatus ==
    /\ InitTasks
    /\ \A k \in TopicKeys("c2") : lessonFiles[k] = None /\ quizFiles[k] = EmptyDir

NextStatus ==
    \/ NextPrep
    \/ get_content_status("c1")
    \/ /\ preps[1].pc = "done"
       /\ PrepStart(2, "c1")

SpecStatus == InitStatus /\ [][NextStatus]_vars

\* the report and the task list agree on the same state
StatusAgrees(status, tasks) ==
    /\ status.ready <=> Len(tasks) = 0
    /\ Len(status.missing_lessons) + Len(status.missing_quizzes) = Len(tasks)

\* preparation p has ended and none of its tasks failed
PreparedWithoutFailure(p) ==
    /\ preps[p].pc = "done"
    /\ ~ Raised(preps[p].result)
    /\ FailedTasks(preps[p]) = {}

\* C40: a content-status report agrees with the task list a batch preparation builds
\* on the same state (ready exactly when there are zero tasks, and the two missing
\* lists together as long as the announced total), at every report and at every
\* start of a preparation; and once a preparation has ended with no failed task and
\* no other writer, the report is ready and a second preparation has zero tasks.
C40_StatusAgreesWithPrepare ==
    /\ [][ /\ get_content_status("c1")
              => /\ ret'.status = 200
                 /\ StatusAgrees(ret'.value, BuildTasks("c1"))
           /\ \A p \in PrepIds :
                 PrepStart(p, "c1")
                 => /\ StatusAgrees(ContentStatus("c1"), preps'[p].tasks)
                    /\ preps'[p].total = Len(preps'[p].tasks) ]_vars
    /\ [](PreparedWithoutFailure(1)
          => /\ ContentStatus("c1").ready
             /\ BuildTasks("c1") = << >>
             /\ preps[2].pc # "idle" => preps[2].total = 0)

\* a preparation of six tasks has ended without a failure, the report after it says
\* ready with nothing missing, and a second preparation found nothing to do
C40_Witness ==
    /\ PreparedWithoutFailure(1)
    /\ preps[1].total = 6
    /\ preps[2].pc = "done"
    /\ preps[2].total = 0
    /\ LastEvent(preps[2]) = NothingToDoEvent
    /\ "call" \in DOMAIN ret
    /\ ret.call = "get_content_status"
    /\ ret.value.ready
    /\ ret.value.missing_lessons = << >>
    /\ ret.value.lessons_cached = 3

====
